---- MODULE Spec2Model ----
(***************************************************************************)
(* DeSC-Nalmefene preprocessing: cohort extraction (extract_f10_2_patients *)
(* and the washout cohorts of save_results) and the treatment-group        *)
(* classification of create_analysis_dataset.py.                           *)
(*                                                                         *)
(* Text columns are sequences of character codes, so that the string       *)
(* comparisons polars performs and the date parsing of str.to_date are     *)
(* computed, not assumed.  Data frames whose row order polars leaves       *)
(* unspecified and whose rows are distinct are sets of records; the others *)
(* are sequences of records.                                               *)
(***************************************************************************)
EXTENDS Integers, Sequences, FiniteSets, TLC

VARIABLES
    epc,            \* extract_f10_2_patients: position in the function
    chunk_size,     \* params['chunk_size'], the per-archive row cap
    nread,          \* number of disease files the loop has processed
    results,        \* the list `results`: one matched frame per archive
    index_dates,    \* the frame `index_dates` (one record per group)
    scan_log,       \* per processed archive: what the scan left out
    warnings,       \* the warnings extract_f10_2_patients has logged
    wpc,            \* washout: calls of apply_washout_criteria made so far
    patients_df,    \* the full index-dated patient frame
    washout_weeks,  \* the washout_weeks argument
    washed,         \* apply_washout_criteria(patients_df, washout_weeks)
    rewashed,       \* apply_washout_criteria(washed, washout_weeks)
    spc,            \* save_results: position in the function
    files,          \* the output directory: file name -> frame written
    tpc,            \* classify_treatment_groups: position in the function
    dirs_exist,     \* receipt_drug and receipt_drug_santei_ymd both exist
    tread,          \* number of drug files the loop has processed
    treatment_results,  \* the list `treatment_results`
    pair_log,       \* per processed drug file: df_merged and grouped
    classified,     \* the frame `classified`
    classify_log,   \* what the function logs at error or warning level outside the loop
    xpc,            \* get_exam_data_time_series: position in the function
    exam_file,      \* exam_interview_processed.feather: absent, or its rows
    exam_closest,   \* the frame the function returns
    dpc,            \* main() of create_analysis_dataset.py: position
    tekiyo_file,    \* tekiyo.feather: absent, or its rows
    drug_data,      \* what the drug archives give classify_treatment_groups
    disease_data,   \* what the master and the archives give get_comorbidities
    cohorts,        \* the dict load_patient_cohorts returns, as (name, frame) items
    cohort_idx,     \* items of the dict the loop has been through
    dataset_exit,   \* exit status of the dataset process, once it ended
    cpc,            \* get_comorbidities: position in the function
    icd10_master,   \* master_data.get("icd10"): no value, or the master rows
    disease_archives,   \* receipt_diseases files, latest modification first
    cread,          \* number of disease files the comorbidity loop has processed
    comorbidity_codes,  \* the dict `comorbidity_codes`
    comorbidity_results,    \* the list `comorbidity_results`
    comorb_log,     \* per processed disease file: whether reading it raised
    patients_with_comorbidities,    \* the frame get_comorbidities returns
    mpc,            \* main() of extract_f10_2_patients.py: position
    icd10_file,     \* m_icd10.feather: exists, readable, rows
    n_disease_files,    \* number of archives get_disease_files finds
    scan_filter,    \* the code list extract_f10_2_patients was called with
    exit_status,    \* exit status of the extraction process, once it ended
    rpc,            \* main() of run_preprocessing_pipeline.py: position
    step,           \* the runner's loop index i over scripts
    script_exists,  \* per script, os.path.exists(script_path)
    file_status,    \* what check_output_files returned, once it ran
    report,         \* the totals of generate_summary_report, once it ran
    started,        \* the steps the runner has started
    success_count,  \* the runner's success_count
    pipeline_exit   \* exit status of the runner, once it ended

extractVars == <<epc, chunk_size, nread, results, index_dates, scan_log, warnings>>
washVars == <<wpc, washout_weeks, washed, rewashed>>
saveVars == <<spc, files>>
treatVars == <<tpc, dirs_exist, tread, treatment_results, pair_log, classified,
               classify_log>>
examVars == <<xpc, exam_file, exam_closest>>
dataVars ==
    <<dpc, tekiyo_file, drug_data, disease_data, cohorts, cohort_idx, dataset_exit>>
comorbVars ==
    <<cpc, icd10_master, disease_archives, cread, comorbidity_codes,
      comorbidity_results, comorb_log, patients_with_comorbidities>>
runnerVars ==
    <<rpc, step, script_exists, started, success_count, file_status, report,
      pipeline_exit>>
mainVars ==
    <<mpc, icd10_file, n_disease_files, scan_filter, exit_status, runnerVars>>
vars ==
    <<extractVars, washVars, saveVars, treatVars, comorbVars, mainVars, examVars,
      dataVars, patients_df>>

\* what each component leaves alone
notExtract == <<washVars, saveVars, treatVars, comorbVars, mainVars, examVars,
      dataVars, patients_df>>
notWash == <<extractVars, saveVars, treatVars, comorbVars, mainVars, examVars,
      dataVars, patients_df>>
notSave == <<extractVars, washVars, treatVars, comorbVars, mainVars, examVars,
      dataVars, patients_df>>
notTreat == <<extractVars, washVars, saveVars, comorbVars, mainVars, examVars,
      dataVars, patients_df>>
notComorb == <<extractVars, washVars, saveVars, treatVars, mainVars, examVars,
      dataVars, patients_df>>
notMain == <<extractVars, washVars, treatVars, comorbVars, examVars, dataVars>>
notExam == <<extractVars, washVars, saveVars, treatVars, comorbVars, mainVars,
      dataVars, patients_df>>
notData == <<extractVars, washVars, treatVars, comorbVars, mainVars, spc, xpc,
      exam_closest, patients_df>>

(***************************************************************************)
(* Bounds of the model.                                                    *)
(***************************************************************************)
NFiles == 2         \* disease archives in the directory
MaxRows == 2        \* diagnosis rows over all archives
MaxPatients == 3    \* rows of the patient frame given to the washout filter
NDrugFiles == 3     \* drug archives in receipt_drug
MaxLines == 2       \* dispensing lines over all drug archives
MaxCohort == 2      \* patients of the cohort given to the classifier

(***************************************************************************)
(* Strings and dates.                                                      *)
(***************************************************************************)
CharSlash == 47     \* '/' of the archives' YYYY/MM/DD text
CharDash == 45      \* '-' of Config.STUDY_PERIOD_START / _END

\* the character of a decimal digit, and the digit of a character
DigitChar(n) == 48 + n
DigitVal(c) == c - 48

Digit2(n) == <<DigitChar(n \div 10), DigitChar(n % 10)>>

Digit4(n) ==
    <<DigitChar(n \div 1000), DigitChar((n \div 100) % 10),
      DigitChar((n \div 10) % 10), DigitChar(n % 10)>>

\* The text of a date with the given separator, as the archives ('/') and
\* the configuration ('-') write it.
DateStr(y, m, d, sep) == Digit4(y) \o <<sep>> \o Digit2(m) \o <<sep>> \o Digit2(d)

\* polars' order on strings: lexicographic on the bytes.
RECURSIVE StrLt(_, _)
StrLt(a, b) ==
    IF b = <<>> THEN FALSE
    ELSE IF a = <<>> THEN TRUE
    ELSE IF Head(a) < Head(b) THEN TRUE
    ELSE IF Head(a) > Head(b) THEN FALSE
    ELSE StrLt(Tail(a), Tail(b))

StrLe(a, b) == a = b \/ StrLt(a, b)

\* str.to_date(format="%Y/%m/%d"): the calendar date of a YYYY/MM/DD text.
StrToDate(s) ==
    [y |-> 1000 * DigitVal(s[1]) + 100 * DigitVal(s[2]) + 10 * DigitVal(s[3]) + DigitVal(s[4]),
     m |-> 10 * DigitVal(s[6]) + DigitVal(s[7]),
     d |-> 10 * DigitVal(s[9]) + DigitVal(s[10])]

\* A polars Date is a day count; this is the day count of a civil date
\* (proleptic Gregorian calendar, leap years included).
DaysFromCivil(y, m, d) ==
    LET yy  == IF m <= 2 THEN y - 1 ELSE y
        era == yy \div 400
        yoe == yy - era * 400
        mp  == (m + 9) % 12
        doy == (153 * mp + 2) \div 5 + d - 1
        doe == yoe * 365 + yoe \div 4 - yoe \div 100 + doy
    IN  era * 146097 + doe - 719468

DateDays(dt) == DaysFromCivil(dt.y, dt.m, dt.d)

\* dt.offset_by("<w>w") on a Date: w weeks of seven days.
OffsetWeeks(days, w) == days + 7 * w

\* the number of days of month m of year y
DaysInMonth(y, m) ==
    IF m = 2
    THEN (IF y % 4 = 0 /\ (y % 100 # 0 \/ y % 400 = 0) THEN 29 ELSE 28)
    ELSE IF m \in {4, 6, 9, 11} THEN 30 ELSE 31

\* dt.offset_by("<n>mo") on a Date (and "<k>y" as 12k months): the same day
\* of the month n calendar months away, or the last day of that month when
\* it has no such day
OffsetMonths(dt, n) ==
    LET t == 12 * dt.y + (dt.m - 1) + n
        y == t \div 12
        m == (t % 12) + 1
    IN  [y |-> y, m |-> m,
         d |-> IF dt.d > DaysInMonth(y, m) THEN DaysInMonth(y, m) ELSE dt.d]

(***************************************************************************)
(* Config of extract_f10_2_patients.py.                                    *)
(***************************************************************************)
STUDY_PERIOD_START == DateStr(2014, 4, 1, CharDash)
STUDY_PERIOD_END == DateStr(2023, 9, 30, CharDash)

(***************************************************************************)
(* Inputs: the diagnosis archives.                                         *)
(***************************************************************************)
KojinIds == {<<49>>, <<50>>}                    \* "1", "2"

\* the receipt disease codes resolved for (F102, kind 1), and another code
f10_2_diseases_codes == {"8843540", "3039009"}
OtherDiseaseCode == "4019014"

DiagDates ==
    {DateStr(2013, 11, 15, CharSlash), DateStr(2014, 2, 1, CharSlash),
     DateStr(2014, 4, 1, CharSlash), DateStr(2023, 9, 30, CharSlash),
     DateStr(2023, 10, 1, CharSlash)}

ReceiptYms == {<<50, 48, 49, 52, 47, 48, 52>>, <<50, 48, 49, 52, 47, 48, 53>>}

\* the code and flag columns of the row with the given receipt id when it
\* carries a target code: they differ from one row to the next
TargetPayload(n) ==
    IF n % 2 = 1
    THEN [diseases_code |-> "8843540", shubyomei_flg |-> 1, tenki_kbn_code |-> 1, utagai_flg |-> 0]
    ELSE [diseases_code |-> "3039009", shubyomei_flg |-> 0, tenki_kbn_code |-> 3, utagai_flg |-> 1]

\* the rows an archive may hold at position pos; receipt ids are unique
DiseaseRows(fileNo, pos) ==
    {LET rid == 10 * fileNo + pos
         p   == TargetPayload(fileNo + pos)
     IN  [kojin_id |-> k, receipt_id |-> rid, receipt_ym |-> ym,
          diseases_code |-> IF target THEN p.diseases_code ELSE OtherDiseaseCode,
          sinryo_start_ymd |-> d,
          shubyomei_flg |-> p.shubyomei_flg, tenki_kbn_code |-> p.tenki_kbn_code,
          utagai_flg |-> p.utagai_flg] :
        k \in KojinIds, ym \in ReceiptYms, d \in DiagDates, target \in BOOLEAN}

RECURSIVE DiseaseFiles(_, _)
DiseaseFiles(fileNo, len) ==
    IF len = 0 THEN {<<>>}
    ELSE {Append(f, r) : f \in DiseaseFiles(fileNo, len - 1), r \in DiseaseRows(fileNo, len)}

RECURSIVE RowCount(_)
RowCount(frames) == IF frames = <<>> THEN 0 ELSE Len(Head(frames)) + RowCount(Tail(frames))

(***************************************************************************)
(* extract_f10_2_patients                                                  *)
(***************************************************************************)
\* scan_ipc(n_rows=cap): the first cap rows of the archive
ScanRows(file, cap) == SubSeq(file, 1, IF Len(file) < cap THEN Len(file) ELSE cap)

\* .filter(pl.col("diseases_code").is_in(codes)), order kept
FilterCodes(rows, codes) == SelectSeq(rows, LAMBDA r : r.diseases_code \in codes)

\* pl.concat(results)
RECURSIVE Concat(_)
Concat(frames) == IF frames = <<>> THEN <<>> ELSE Head(frames) \o Concat(Tail(frames))

\* a sort that leaves the reporting period out of the key
SortKeyLe_NoPeriod(a, b) ==
    \/ StrLt(a.kojin_id, b.kojin_id)
    \/ /\ a.kojin_id = b.kojin_id
       /\ StrLe(a.sinryo_start_ymd, b.sinryo_start_ymd)

\* the order of .sort(["kojin_id", "sinryo_start_ymd", "receipt_ym"])
SortKeyLe(a, b) ==
    \/ StrLt(a.kojin_id, b.kojin_id)
    \/ /\ a.kojin_id = b.kojin_id
       /\ \/ StrLt(a.sinryo_start_ymd, b.sinryo_start_ymd)
          \/ /\ a.sinryo_start_ymd = b.sinryo_start_ymd
             /\ StrLe(a.receipt_ym, b.receipt_ym)

Perms(n) == {p \in [1..n -> 1..n] : \A i, j \in 1..n : i # j => p[i] # p[j]}

\* DataFrame.sort without maintain_order: any arrangement of the rows that
\* is ordered by the key; rows with equal keys come in any order.
SortOutcomes(rows) ==
    {[i \in 1..Len(rows) |-> rows[p[i]]] :
        p \in {q \in Perms(Len(rows)) :
                 \A i \in 1..(Len(rows) - 1) : SortKeyLe(rows[q[i]], rows[q[i + 1]])}}

\* an aggregation without the grouping: one record per row
GroupFirst_PerRow(sorted) ==
    {[kojin_id |-> sorted[i].kojin_id, index_date |-> sorted[i].sinryo_start_ymd,
      first_receipt_id |-> sorted[i].receipt_id, first_receipt_ym |-> sorted[i].receipt_ym,
      first_diseases_code |-> sorted[i].diseases_code,
      first_shubyomei_flg |-> sorted[i].shubyomei_flg,
      first_tenki_kbn_code |-> sorted[i].tenki_kbn_code,
      first_utagai_flg |-> sorted[i].utagai_flg,
      total_f10_2_records |-> 1] : i \in 1..Len(sorted)}

\* .group_by("kojin_id").agg([... .first() ..., pl.count()]): per group the
\* columns of its first row in frame order, and the group's row count
GroupFirst(sorted) ==
    {LET idx == {i \in 1..Len(sorted) : sorted[i].kojin_id = k}
         f   == sorted[CHOOSE i \in idx : \A j \in idx : i <= j]
     IN  [kojin_id |-> k, index_date |-> f.sinryo_start_ymd,
          first_receipt_id |-> f.receipt_id, first_receipt_ym |-> f.receipt_ym,
          first_diseases_code |-> f.diseases_code,
          first_shubyomei_flg |-> f.shubyomei_flg,
          first_tenki_kbn_code |-> f.tenki_kbn_code,
          first_utagai_flg |-> f.utagai_flg,
          total_f10_2_records |-> Cardinality(idx)] :
        k \in {sorted[i].kojin_id : i \in 1..Len(sorted)}}

\* the study-period filter: both comparisons are between the index_date
\* text and the Config text
InStudyPeriodFilter(p) ==
    /\ StrLe(STUDY_PERIOD_START, p.index_date)
    /\ StrLe(p.index_date, STUDY_PERIOD_END)

\* the variables of a component that is not running
ExtractIdle ==
    /\ epc = "idle"
    /\ chunk_size = 0
    /\ nread = 0
    /\ results = <<>>
    /\ index_dates = {}
    /\ scan_log = <<>>
    /\ warnings = {}

WashIdle ==
    /\ wpc = "idle"
    /\ washout_weeks = 0
    /\ washed = <<>>
    /\ rewashed = <<>>

SaveIdle ==
    /\ spc = "idle"
    /\ files = [n \in {} |-> <<>>]

TreatIdle ==
    /\ tpc = "idle"
    /\ dirs_exist = FALSE
    /\ tread = 0
    /\ treatment_results = <<>>
    /\ pair_log = <<>>
    /\ classified = <<>>
    /\ classify_log = <<>>

DataIdle ==
    /\ dpc = "idle"
    /\ tekiyo_file = {}
    /\ drug_data = [dirs |-> FALSE, results |-> <<>>]
    /\ disease_data = [master |-> FALSE, results |-> <<>>]
    /\ cohorts = <<>>
    /\ cohort_idx = 0
    /\ dataset_exit = {}

ExamIdle ==
    /\ xpc = "idle"
    /\ exam_file = {}
    /\ exam_closest = {}

ComorbIdle ==
    /\ cpc = "idle"
    /\ icd10_master = {}
    /\ disease_archives = <<>>
    /\ cread = 0
    /\ comorbidity_codes = <<>>
    /\ comorbidity_results = <<>>
    /\ comorb_log = <<>>
    /\ patients_with_comorbidities = <<>>

MainIdle ==
    /\ mpc = "idle"
    /\ icd10_file = [exists |-> FALSE, readable |-> FALSE, rows |-> {}]
    /\ n_disease_files = 0
    /\ scan_filter = {}
    /\ exit_status = {}
    /\ rpc = "idle"
    /\ step = 0
    /\ script_exists = <<FALSE, FALSE>>
    /\ file_status = {}
    /\ report = {}
    /\ started = <<>>
    /\ success_count = 0
    /\ pipeline_exit = {}

ExtractInit ==
    /\ epc = "scan"
    /\ chunk_size \in {1, MaxRows}
    /\ nread = 0
    /\ results = <<>>
    /\ index_dates = {}
    /\ scan_log = <<>>
    /\ warnings = {}
    /\ patients_df = <<>>
    /\ WashIdle
    /\ SaveIdle
    /\ TreatIdle
    /\ ComorbIdle
    /\ MainIdle
    /\ ExamIdle
    /\ DataIdle

\* the rows of the archives scanned so far
RECURSIVE RowsRead(_)
RowsRead(log) == IF log = <<>> THEN 0 ELSE Head(log).rows + RowsRead(Tail(log))

\* one iteration of the loop over disease_files: the scan of the first
\* chunk_size rows, the filter, the append; nothing is logged as a warning
ScanFile ==
    /\ epc = "scan"
    /\ nread < NFiles
    /\ \E len \in 0..(MaxRows - RowsRead(scan_log)) :
         \E file \in DiseaseFiles(nread + 1, len) :
            LET result == FilterCodes(ScanRows(file, chunk_size), f10_2_diseases_codes)
            IN  /\ results' = IF result # <<>> THEN Append(results, result) ELSE results
                /\ scan_log' = Append(scan_log,
                      [rows |-> len,
                       other |-> {file[i].kojin_id :
                                   i \in {j \in 1..len :
                                             file[j].diseases_code \notin f10_2_diseases_codes}},
                       dropped |-> Len(FilterCodes(file, f10_2_diseases_codes)) - Len(result)])
    /\ nread' = nread + 1
    /\ UNCHANGED <<epc, chunk_size, index_dates, warnings, notExtract>>

\* os.path.getsize or the scan of an archive raises (the file is missing,
\* unreadable or corrupt): the loop has no handler and the exception
\* leaves the function
ScanRaises ==
    /\ epc = "scan"
    /\ nread < NFiles
    /\ epc' = "raised"
    /\ UNCHANGED <<chunk_size, nread, results, index_dates, scan_log, warnings, notExtract>>

\* `if not results:` a warning, and return pl.DataFrame()
ReturnEmpty ==
    /\ epc = "scan"
    /\ nread = NFiles
    /\ results = <<>>
    /\ warnings' = warnings \cup {[file |-> 0, message |-> "no F10.2 patient found"]}
    /\ epc' = "done"
    /\ UNCHANGED <<chunk_size, nread, results, index_dates, scan_log, notExtract>>

\* concat, sort, group_by, agg
ResolveIndexDates ==
    /\ epc = "scan"
    /\ nread = NFiles
    /\ results # <<>>
    /\ \E sorted \in SortOutcomes(Concat(results)) : index_dates' = GroupFirst(sorted)
    /\ epc' = "filter"
    /\ UNCHANGED <<chunk_size, nread, results, scan_log, warnings, notExtract>>

\* the study-period filter, and the return
FilterStudyPeriod ==
    /\ epc = "filter"
    /\ index_dates' = {p \in index_dates : InStudyPeriodFilter(p)}
    /\ epc' = "done"
    /\ UNCHANGED <<chunk_size, nread, results, scan_log, warnings, notExtract>>

ExtractNext ==
    ScanFile \/ ScanRaises \/ ReturnEmpty \/ ResolveIndexDates \/ FilterStudyPeriod

SpecExtract == ExtractInit /\ [][ExtractNext]_vars

(***************************************************************************)
(* Properties of extract_f10_2_patients.                                   *)
(***************************************************************************)
\* the study period as calendar days
StudyStartDays == DaysFromCivil(2014, 4, 1)
StudyEndDays == DaysFromCivil(2023, 9, 30)

\* a YYYY/MM/DD text read as a calendar date lies in the study period
InStudyPeriod(text) ==
    /\ StudyStartDays <= DateDays(StrToDate(text))
    /\ DateDays(StrToDate(text)) <= StudyEndDays

\* the matched rows of a patient, over all archives
MatchedRows(k) ==
    {Concat(results)[i] : i \in {j \in 1..Len(Concat(results)) : Concat(results)[j].kojin_id = k}}

\* a YYYY/MM reporting period as a month count
YmMonths(ym) ==
    12 * (1000 * DigitVal(ym[1]) + 100 * DigitVal(ym[2]) + 10 * DigitVal(ym[3]) + DigitVal(ym[4]))
      + 10 * DigitVal(ym[6]) + DigitVal(ym[7])

\* (event date, reporting period) of a is not after that of b
PairLe(a, b) ==
    \/ DateDays(StrToDate(a.sinryo_start_ymd)) < DateDays(StrToDate(b.sinryo_start_ymd))
    \/ /\ DateDays(StrToDate(a.sinryo_start_ymd)) = DateDays(StrToDate(b.sinryo_start_ymd))
       /\ YmMonths(a.receipt_ym) <= YmMonths(b.receipt_ym)

\* C1: every patient row returned by extract_f10_2_patients has an index
\* date that, read as a calendar date, lies within [2014-04-01, 2023-09-30].
C1_IndexDateWithinStudyPeriod ==
    epc = "done" => \A p \in index_dates : InStudyPeriod(p.index_date)

\* C2: a patient with at least one matched row dated within the study
\* period is in the output, with the earliest such date as index date; a
\* patient is absent only when none of their matched rows is in the period.
C2_PresentWithEarliestInPeriodDate ==
    epc = "done" =>
        \A k \in KojinIds :
            LET inPeriod == {r \in MatchedRows(k) : InStudyPeriod(r.sinryo_start_ymd)}
            IN  inPeriod # {} =>
                    \E p \in index_dates :
                        /\ p.kojin_id = k
                        /\ \E r \in inPeriod :
                              /\ p.index_date = r.sinryo_start_ymd
                              /\ \A q \in inPeriod :
                                    DateDays(StrToDate(r.sinryo_start_ymd))
                                        <= DateDays(StrToDate(q.sinryo_start_ymd))

\* C3: for every patient of the output, (index_date, first_receipt_ym) is
\* the minimum (sinryo_start_ymd, receipt_ym) pair over the patient's
\* matched rows of all archives, and the receipt id, the code and the three
\* flags are those of one row attaining that minimum.
C3_IndexRowIsMinimumPair ==
    epc = "done" =>
        \A p \in index_dates :
            \E r \in MatchedRows(p.kojin_id) :
                /\ p.index_date = r.sinryo_start_ymd
                /\ p.first_receipt_ym = r.receipt_ym
                /\ p.first_receipt_id = r.receipt_id
                /\ p.first_diseases_code = r.diseases_code
                /\ p.first_shubyomei_flg = r.shubyomei_flg
                /\ p.first_tenki_kbn_code = r.tenki_kbn_code
                /\ p.first_utagai_flg = r.utagai_flg
                /\ \A q \in MatchedRows(p.kojin_id) : PairLe(r, q)

\* C3 witness: a patient of the output whose rows come from two archives,
\* carry the same date, and whose earlier reporting period is in the later
\* archive
C3_Witness ==
    /\ epc = "done"
    /\ Len(results) = 2
    /\ \E p \in index_dates :
          /\ p.total_f10_2_records = 2
          /\ results[1][1].kojin_id = p.kojin_id
          /\ results[2][1].kojin_id = p.kojin_id
          /\ results[1][1].sinryo_start_ymd = results[2][1].sinryo_start_ymd
          /\ StrLt(results[2][1].receipt_ym, results[1][1].receipt_ym)
          /\ p.first_receipt_id = results[2][1].receipt_id

\* C14: the output of extract_f10_2_patients has one row per patient
\* identifier, however many matched rows and archives the patient has.
C14_OneRowPerPatient ==
    epc \in {"filter", "done"} =>
        \A p, q \in index_dates : p.kojin_id = q.kojin_id => p = q

\* C14 witness: a patient of the output has matched rows of different
\* dates in two archives, both dates passing the period filter
C14_Witness ==
    /\ epc = "done"
    /\ Len(results) = 2
    /\ \E p \in index_dates :
          /\ results[1][1].kojin_id = p.kojin_id
          /\ results[2][1].kojin_id = p.kojin_id
          /\ results[1][1].sinryo_start_ymd # results[2][1].sinryo_start_ymd
          /\ InStudyPeriodFilter([index_date |-> results[1][1].sinryo_start_ymd])
          /\ InStudyPeriodFilter([index_date |-> results[2][1].sinryo_start_ymd])
          /\ p.total_f10_2_records = 2

\* C15: only rows with a target code are taken from an archive, so a
\* patient whose rows all carry other codes is not in the output; and a
\* patient whose one target-code row, scanned within the row cap, is dated
\* within the study period is in the output with that date as index date.
C15_OnlyTargetCodeRows ==
    epc = "done" =>
        /\ \A i \in 1..Len(Concat(results)) :
              Concat(results)[i].diseases_code \in f10_2_diseases_codes
        /\ \A j \in 1..Len(scan_log) :
              \A k \in scan_log[j].other :
                  MatchedRows(k) = {} => \A p \in index_dates : p.kojin_id # k
        /\ \A k \in KojinIds :
              \A r \in MatchedRows(k) :
                  (MatchedRows(k) = {r} /\ InStudyPeriod(r.sinryo_start_ymd))
                      => \E p \in index_dates :
                            p.kojin_id = k /\ p.index_date = r.sinryo_start_ymd

\* C18: an archive that cannot be read is skipped: the extraction never
\* ends with the exception of one archive.
C18_BadArchiveDoesNotAbort == epc # "raised"

\* C19: when the row cap makes the scan of an archive leave out rows that
\* carry a target code, a warning is logged for that archive.
C19_TruncationIsWarned ==
    epc = "done" =>
        \A j \in 1..Len(scan_log) :
            scan_log[j].dropped > 0 => \E w \in warnings : w.file = j

(***************************************************************************)
(* apply_washout_criteria and save_results                                 *)
(***************************************************************************)
\* the kojin_id text of the i-th patient
KojinOf(i) == <<DigitChar(i)>>

\* a row of the frame extract_f10_2_patients returns
PatientRow(i, date) ==
    [kojin_id |-> KojinOf(i), index_date |-> date, first_receipt_id |-> 10 + i,
     first_receipt_ym |-> <<50, 48, 49, 52, 47, 48, 52>>,
     first_diseases_code |-> TargetPayload(i).diseases_code,
     first_shubyomei_flg |-> TargetPayload(i).shubyomei_flg,
     first_tenki_kbn_code |-> TargetPayload(i).tenki_kbn_code,
     first_utagai_flg |-> TargetPayload(i).utagai_flg,
     total_f10_2_records |-> i]

\* index dates around the washout thresholds
IndexDates ==
    {DateStr(2014, 4, 1, CharSlash), DateStr(2014, 9, 29, CharSlash),
     DateStr(2014, 9, 30, CharSlash), DateStr(2015, 3, 30, CharSlash),
     DateStr(2015, 3, 31, CharSlash), DateStr(2017, 3, 27, CharSlash),
     DateStr(2017, 3, 28, CharSlash), DateStr(2022, 12, 31, CharSlash)}

\* the patient frames of n rows, one row per patient, dated from `dates`
RECURSIVE PatientFrames(_, _)
PatientFrames(n, dates) ==
    IF n = 0 THEN {<<>>}
    ELSE {Append(f, PatientRow(n, d)) : f \in PatientFrames(n - 1, dates), d \in dates}

\* the frames main() hands to save_results: not empty
PatientInputs == UNION {PatientFrames(n, IndexDates) : n \in 1..MaxPatients}

\* some arrangement of the elements of a finite set as a sequence
SeqOf(S) == CHOOSE q \in [1..Cardinality(S) -> S] : \A x \in S : \E i \in DOMAIN q : q[i] = x

\* with_columns([... .alias(name)]): the row with one more column
WithColumn(r, name, value) ==
    [c \in DOMAIN r \cup {name} |-> IF c = name THEN value ELSE r[c]]

\* .drop(name)
DropColumn(r, name) == [c \in DOMAIN r \ {name} |-> r[c]]

\* a filter that drops the patient dated exactly on the threshold
WashoutKeeps_Strict(r, w) ==
    r.index_date_parsed > OffsetWeeks(DaysFromCivil(2014, 4, 1), w)

\* index_date_parsed >= pl.date(2014, 4, 1).dt.offset_by(f"{w}w")
WashoutKeeps(r, w) ==
    r.index_date_parsed >= OffsetWeeks(DaysFromCivil(2014, 4, 1), w)

\* a filter that returns the kept rows with the parsed column still on them
WashoutFilter_KeepParsed(parsed, w) == SelectSeq(parsed, LAMBDA r : WashoutKeeps(r, w))

\* the rows kept, in frame order, given the frame with the parsed column
WashoutFilter(parsed, w) ==
    LET kept == SelectSeq(parsed, LAMBDA r : WashoutKeeps(r, w))
    IN  [i \in 1..Len(kept) |-> DropColumn(kept[i], "index_date_parsed")]

\* the earliest parsed index date of a frame
EarliestParsed(parsed) ==
    LET days == {parsed[i].index_date_parsed : i \in 1..Len(parsed)}
    IN  CHOOSE d \in days : \A e \in days : d <= e

\* a washout measured from the earliest index date of the frame it is
\* given instead of the fixed study-period start
apply_washout_criteria_FromFrame(df, w) ==
    LET parsed == [i \in 1..Len(df) |->
                     WithColumn(df[i], "index_date_parsed", DateDays(StrToDate(df[i].index_date)))]
        kept   == SelectSeq(parsed,
                     LAMBDA r : r.index_date_parsed >= OffsetWeeks(EarliestParsed(parsed), w))
    IN  IF df = <<>> THEN <<>>
        ELSE [i \in 1..Len(kept) |-> DropColumn(kept[i], "index_date_parsed")]

apply_washout_criteria(df, w) ==
    WashoutFilter([i \in 1..Len(df) |->
        WithColumn(df[i], "index_date_parsed", DateDays(StrToDate(df[i].index_date)))], w)

WashInit ==
    /\ wpc = "start"
    /\ patients_df \in PatientInputs
    /\ washout_weeks \in {26, 52, 156}
    /\ washed = <<>>
    /\ rewashed = <<>>
    /\ ExtractIdle
    /\ SaveIdle
    /\ TreatIdle
    /\ ComorbIdle
    /\ MainIdle
    /\ ExamIdle
    /\ DataIdle

\* apply_washout_criteria(patients_df, washout_weeks)
ApplyWashout ==
    /\ wpc = "start"
    /\ washed' = apply_washout_criteria(patients_df, washout_weeks)
    /\ wpc' = "applied"
    /\ UNCHANGED <<washout_weeks, rewashed, notWash>>

\* the filter applied to its own result, with the same washout_weeks
ReapplyWashout ==
    /\ wpc = "applied"
    /\ rewashed' = apply_washout_criteria(washed, washout_weeks)
    /\ wpc' = "reapplied"
    /\ UNCHANGED <<washout_weeks, washed, notWash>>

WashNext == ApplyWashout \/ ReapplyWashout

SpecWashout == WashInit /\ [][WashNext]_vars

\* save_results: the four output files
PrimaryFile == "f10_2_patients_primary_cohort.feather"
Sens1File == "f10_2_patients_sensitivity_cohort1.feather"
Sens2File == "f10_2_patients_sensitivity_cohort2.feather"
AllFile == "f10_2_patients_all.feather"

\* write_ipc(path): the file holds the frame
WriteIpc(dir, name, frame) ==
    [n \in DOMAIN dir \cup {name} |-> IF n = name THEN frame ELSE dir[n]]

\* a sensitivity cohort filtered out of the primary cohort
SensitivityCohort1_FromPrimary(full, primary) == apply_washout_criteria(primary, 26)

\* primary_cohort = apply_washout_criteria(patients_df, 52)
PrimaryCohort(full) == apply_washout_criteria(full, 52)

\* sensitivity_cohort1 = apply_washout_criteria(patients_df, 26)
SensitivityCohort1(full, primary) == apply_washout_criteria(full, 26)

\* sensitivity_cohort2 = apply_washout_criteria(patients_df, 156)
SensitivityCohort2(full, primary) == apply_washout_criteria(full, 156)

SaveInit ==
    /\ spc = "primary"
    /\ patients_df \in PatientInputs
    /\ files = [n \in {} |-> <<>>]
    /\ ExtractIdle
    /\ WashIdle
    /\ TreatIdle
    /\ ComorbIdle
    /\ MainIdle
    /\ ExamIdle
    /\ DataIdle

SavePrimary ==
    /\ spc = "primary"
    /\ files' = WriteIpc(files, PrimaryFile, PrimaryCohort(patients_df))
    /\ spc' = "sens1"
    /\ UNCHANGED notSave

SaveSens1 ==
    /\ spc = "sens1"
    /\ files' = WriteIpc(files, Sens1File, SensitivityCohort1(patients_df, files[PrimaryFile]))
    /\ spc' = "sens2"
    /\ UNCHANGED notSave

SaveSens2 ==
    /\ spc = "sens2"
    /\ files' = WriteIpc(files, Sens2File, SensitivityCohort2(patients_df, files[PrimaryFile]))
    /\ spc' = "all"
    /\ UNCHANGED notSave

SaveAll ==
    /\ spc = "all"
    /\ files' = WriteIpc(files, AllFile, patients_df)
    /\ spc' = "saved"
    /\ UNCHANGED notSave

SaveNext == SavePrimary \/ SaveSens1 \/ SaveSens2 \/ SaveAll

SpecSave == SaveInit /\ [][SaveNext]_vars

(***************************************************************************)
(* Properties of apply_washout_criteria and save_results.                  *)
(***************************************************************************)
\* the first index date a washout of w weeks retains, from the calendar:
\* 2014-04-01 plus 182, 364 and 1092 days
WashoutThresholdText(w) ==
    CASE w = 26 -> DateStr(2014, 9, 30, CharSlash)
      [] w = 52 -> DateStr(2015, 3, 31, CharSlash)
      [] w = 156 -> DateStr(2017, 3, 28, CharSlash)

\* the rows of df dated on or after the threshold of w, in frame order
OnOrAfterThreshold(df, w) ==
    SelectSeq(df, LAMBDA r : StrLe(WashoutThresholdText(w), r.index_date))

Rows(df) == {df[i] : i \in 1..Len(df)}

\* C8: apply_washout_criteria(patients, w) retains a patient if and only if
\* the index date is on or after 2014-04-01 plus w weeks.
C8_RetainedIffOnOrAfterThreshold ==
    wpc # "start" /\ wpc # "idle" =>
        \A i \in 1..Len(patients_df) :
            (patients_df[i] \in Rows(washed))
                <=> StrLe(WashoutThresholdText(washout_weeks), patients_df[i].index_date)

\* C8 witness: a 52-week washout has kept a patient dated 2015/03/31 and
\* dropped one dated 2015/03/30
C8_Witness ==
    /\ wpc = "applied"
    /\ washout_weeks = 52
    /\ \E r \in Rows(washed) : r.index_date = DateStr(2015, 3, 31, CharSlash)
    /\ \E r \in Rows(patients_df) \ Rows(washed) : r.index_date = DateStr(2015, 3, 30, CharSlash)

\* C9: filtering the filtered frame again with the same washout weeks
\* yields the same rows.
C9_WashoutIdempotent == wpc = "reapplied" => rewashed = washed

\* C9 witness: the filter was applied twice to a frame of which it drops
\* some rows and keeps others
C9_Witness ==
    /\ wpc = "reapplied"
    /\ washed # <<>>
    /\ Len(washed) < Len(patients_df)

\* the columns of the frame extract_f10_2_patients returns
PatientColumns ==
    {"kojin_id", "index_date", "first_receipt_id", "first_receipt_ym",
     "first_diseases_code", "first_shubyomei_flg", "first_tenki_kbn_code",
     "first_utagai_flg", "total_f10_2_records"}

\* C24: apply_washout_criteria returns the retained rows as they are in the
\* input (same columns, same index date and provenance values, no helper
\* column), leaves the input frame as it was, and its result is a function
\* of the input rows, the washout weeks and the fixed period start.
C24_WashoutLeavesRowsUnchanged ==
    /\ [](wpc \in {"applied", "reapplied"} =>
            /\ \A i \in 1..Len(washed) :
                  /\ DOMAIN washed[i] = PatientColumns
                  /\ \E j \in 1..Len(patients_df) :
                        \A c \in PatientColumns : washed[i][c] = patients_df[j][c]
            /\ \A j \in 1..Len(patients_df) : DOMAIN patients_df[j] = PatientColumns
            /\ washed = OnOrAfterThreshold(patients_df, washout_weeks))
    /\ [][patients_df' = patients_df /\ washout_weeks' = washout_weeks]_vars

\* C24 witness: the filter has kept some rows of a frame of several
\* patients and dropped others
C24_Witness ==
    /\ wpc = "applied"
    /\ Len(patients_df) > 1
    /\ washed # <<>>
    /\ Len(washed) < Len(patients_df)
    /\ \E i \in 1..Len(washed) : washed[i].total_f10_2_records > 1

\* C10: each of the three washout cohorts save_results writes is the filter
\* of the full patient frame for its own washout length, and the 'all' file
\* is the full frame.
C10_CohortsFromFullSet ==
    spc = "saved" =>
        /\ files[PrimaryFile] = OnOrAfterThreshold(patients_df, 52)
        /\ files[Sens1File] = OnOrAfterThreshold(patients_df, 26)
        /\ files[Sens2File] = OnOrAfterThreshold(patients_df, 156)
        /\ files[AllFile] = patients_df

\* C10 witness: all four files written, no two of them alike
C10_Witness ==
    /\ spc = "saved"
    /\ Len(files[Sens2File]) < Len(files[PrimaryFile])
    /\ Len(files[PrimaryFile]) < Len(files[Sens1File])
    /\ Len(files[Sens1File]) < Len(files[AllFile])

(***************************************************************************)
(* classify_treatment_groups (create_analysis_dataset.py)                  *)
(***************************************************************************)
DRUG_CODES ==
    [nalmefene |-> 622607601, acamprosate |-> 622243701,
     disulfiram |-> 620008676, cyanamide |-> 621320701]

reduction_codes == {DRUG_CODES.nalmefene}
abstinence_codes == {DRUG_CODES.acamprosate, DRUG_CODES.disulfiram, DRUG_CODES.cyanamide}

\* a nullable column value: no value, or one value
Null == {}
Some(v) == {v}

\* cast(pl.String) of an integer column: the decimal text
RECURSIVE CastString(_)
CastString(n) ==
    IF n < 10 THEN <<DigitChar(n)>>
    ELSE Append(CastString(n \div 10), DigitChar(n % 10))

\* cast(pl.Int64) of a decimal text column
RECURSIVE CastInt64(_)
CastInt64(s) ==
    IF s = <<>> THEN 0
    ELSE 10 * CastInt64(SubSeq(s, 1, Len(s) - 1)) + DigitVal(s[Len(s)])

\* the cohorts: one row per patient, index dates a day apart
CohortIndexDates == {DateStr(2015, 3, 31, CharSlash), DateStr(2015, 4, 1, CharSlash)}
CohortInputs == UNION {PatientFrames(n, CohortIndexDates) : n \in 1..MaxCohort}

\* dates of dispensing around the ends of the windows of those index dates
ShohouDates ==
    {DateStr(2015, 3, 30, CharSlash), DateStr(2015, 3, 31, CharSlash),
     DateStr(2016, 3, 29, CharSlash), DateStr(2016, 3, 30, CharSlash)}

\* a line without a row in the date archive
NoDate == <<>>

\* drug codes met in the archives: a reduction-class code, an
\* abstinence-class code and a code of neither class
DrugCodeInputs == {DRUG_CODES.nalmefene, DRUG_CODES.acamprosate, 610443047}

\* the dispensing lines a drug archive may hold at position pos: the
\* patient (a number in the archive), the drug, and the date its row of the
\* date archive carries, if it has one; (receipt_id, line_no) is unique
DrugLines(fileNo, pos) ==
    {[kojin_id |-> k, receipt_id |-> 10 * fileNo + pos, line_no |-> pos,
      drug_code |-> c, shohou_ymd |-> d] :
        k \in 1..(MaxCohort + 1), c \in DrugCodeInputs, d \in ShohouDates \cup {NoDate}}

RECURSIVE DrugArchives(_, _)
DrugArchives(fileNo, len) ==
    IF len = 0 THEN {<<>>}
    ELSE {Append(f, r) : f \in DrugArchives(fileNo, len - 1), r \in DrugLines(fileNo, len)}

\* pl.read_ipc(file_path): the rows of receipt_drug_<ym>.feather
DrugRaw(lines) ==
    [i \in 1..Len(lines) |->
        [kojin_id |-> lines[i].kojin_id, receipt_id |-> lines[i].receipt_id,
         line_no |-> lines[i].line_no, drug_code |-> lines[i].drug_code]]

\* pl.read_ipc(santei_file_path): the rows of the date archive, whose
\* keys are text
SanteiRaw(lines) ==
    LET dated == SelectSeq(lines, LAMBDA l : l.shohou_ymd # NoDate)
    IN  [i \in 1..Len(dated) |->
            [kojin_id |-> dated[i].kojin_id,
             receipt_id |-> CastString(dated[i].receipt_id),
             line_no |-> CastString(dated[i].line_no),
             shohou_ymd |-> dated[i].shohou_ymd]]

\* patient_ids = set(patients_df["kojin_id"].to_list())
PatientIds(df) == {df[i].kojin_id : i \in 1..Len(df)}

\* df_drug: kojin_id cast to text, rows of the cohort, four columns
DrugOfCohort(raw, ids) ==
    SelectSeq([i \in 1..Len(raw) |-> [raw[i] EXCEPT !.kojin_id = CastString(@)]],
              LAMBDA r : r.kojin_id \in ids)

\* df_santei: keys cast, rows of the cohort, three columns
SanteiOfCohort(raw, ids) ==
    LET cast == [i \in 1..Len(raw) |->
                    [kojin_id |-> CastString(raw[i].kojin_id),
                     receipt_id |-> CastInt64(raw[i].receipt_id),
                     line_no |-> CastInt64(raw[i].line_no),
                     shohou_ymd |-> raw[i].shohou_ymd]]
        kept == SelectSeq(cast, LAMBDA r : r.kojin_id \in ids)
    IN  [i \in 1..Len(kept) |->
            [receipt_id |-> kept[i].receipt_id, line_no |-> kept[i].line_no,
             shohou_ymd |-> kept[i].shohou_ymd]]

\* a join that keeps a row without a date row and dates it on the first day
\* of the study period
JoinDates_KeepUndated(df_drug, df_santei) ==
    {[kojin_id |-> df_drug[i].kojin_id, receipt_id |-> df_drug[i].receipt_id,
      line_no |-> df_drug[i].line_no, drug_code |-> df_drug[i].drug_code,
      shohou_ymd |->
          IF \E j \in 1..Len(df_santei) :
                /\ df_drug[i].receipt_id = df_santei[j].receipt_id
                /\ df_drug[i].line_no = df_santei[j].line_no
          THEN (CHOOSE r \in {df_santei[j] : j \in 1..Len(df_santei)} :
                    /\ df_drug[i].receipt_id = r.receipt_id
                    /\ df_drug[i].line_no = r.line_no).shohou_ymd
          ELSE DateStr(2015, 4, 1, CharSlash)] : i \in 1..Len(df_drug)}

\* df_drug.join(df_santei, on=["receipt_id", "line_no"], how="inner").
\* The joined frames are read only through emptiness and per-patient
\* max/min, so their rows are kept as a set.
JoinDates(df_drug, df_santei) ==
    {[kojin_id |-> df_drug[i].kojin_id, receipt_id |-> df_drug[i].receipt_id,
      line_no |-> df_drug[i].line_no, drug_code |-> df_drug[i].drug_code,
      shohou_ymd |-> df_santei[j].shohou_ymd] :
        <<i, j>> \in {x \in (1..Len(df_drug)) \X (1..Len(df_santei)) :
                        /\ df_drug[x[1]].receipt_id = df_santei[x[2]].receipt_id
                        /\ df_drug[x[1]].line_no = df_santei[x[2]].line_no}}

\* df_merged.join(patients_df.select(["kojin_id", "index_date"]),
\* on="kojin_id", how="inner"), then both dates parsed
JoinIndexDates(df_merged, df) ==
    {[kojin_id |-> r.kojin_id, drug_code |-> r.drug_code,
      shohou_ymd |-> DateDays(StrToDate(r.shohou_ymd)),
      index_date |-> DateDays(StrToDate(df[i].index_date))] :
        <<r, i>> \in {x \in df_merged \X (1..Len(df)) : x[1].kojin_id = df[x[2]].kojin_id}}

\* a window that leaves out its last day
InWindow_OpenEnd(r) ==
    /\ r.shohou_ymd >= r.index_date
    /\ r.shohou_ymd < OffsetWeeks(r.index_date, 52)

\* (shohou_ymd >= index_date) & (shohou_ymd <= index_date.dt.offset_by("52w"))
InWindow(r) ==
    /\ r.shohou_ymd >= r.index_date
    /\ r.shohou_ymd <= OffsetWeeks(r.index_date, 52)

\* group_by("kojin_id").agg([max, max, min])
GroupFlags(df_filtered) ==
    {LET g == {r \in df_filtered : r.kojin_id = k}
     IN  [kojin_id |-> k,
          has_reduction |-> \E r \in g : r.drug_code \in reduction_codes,
          has_abstinence |-> \E r \in g : r.drug_code \in abstinence_codes,
          first_drug_date |->
              CHOOSE d \in {r.shohou_ymd : r \in g} : \A r \in g : d <= r.shohou_ymd] :
        k \in {r.kojin_id : r \in df_filtered}}

\* df_merged of one iteration: empty when the iteration leaves the loop
\* body before the join (no row of the cohort, no date archive)
MergedOf(lines, santei_exists, df) ==
    LET df_drug == DrugOfCohort(DrugRaw(lines), PatientIds(df))
    IN  IF df_drug = <<>> \/ ~santei_exists THEN {}
        ELSE JoinDates(df_drug, SanteiOfCohort(SanteiRaw(lines), PatientIds(df)))

\* grouped of one iteration: empty when the iteration leaves the loop body
\* before the append
GroupedOf(df_merged, df) ==
    GroupFlags({r \in JoinIndexDates(df_merged, df) : InWindow(r)})

\* a combination that keeps every grouped row of every archive pair
UniqueOutcomes_KeepAll(frames) == {UNION {frames[i] : i \in 1..Len(frames)}}

\* pl.concat(treatment_results).unique(subset=["kojin_id"]): one row per
\* kojin_id, any one of the rows that carry it
UniqueOutcomes(frames) ==
    LET rows == UNION {frames[i] : i \in 1..Len(frames)}
        ids  == {r.kojin_id : r \in rows}
    IN  {{f[k] : k \in ids} :
            f \in {g \in [ids -> rows] : \A k \in ids : g[k].kojin_id = k}}

\* a classification that takes a missing has_abstinence for a true one
TreatmentGroup_NullCounts(has_reduction, has_abstinence) ==
    IF has_reduction = Some(TRUE) THEN 1
    ELSE IF has_abstinence # Some(FALSE) THEN 2
    ELSE 3

\* when(has_reduction == True).then(1).when(has_abstinence == True).then(2)
\* .otherwise(3); a comparison with a null is not true
TreatmentGroup(has_reduction, has_abstinence) ==
    IF has_reduction = Some(TRUE) THEN 1
    ELSE IF has_abstinence = Some(TRUE) THEN 2
    ELSE 3

\* a row of the left join: the cohort row p with the three columns of its
\* match m (a set with the matching row, or empty), and treatment_group
ClassifiedRow(p, m) ==
    LET hr == {c.has_reduction : c \in m}
        ha == {c.has_abstinence : c \in m}
        fd == {c.first_drug_date : c \in m}
    IN  WithColumn(WithColumn(WithColumn(WithColumn(p,
            "has_reduction", hr), "has_abstinence", ha), "first_drug_date", fd),
            "treatment_group", TreatmentGroup(hr, ha))

\* patients_df.join(combined_treatment, on="kojin_id", how="left") and the
\* treatment_group column: one row per match of a cohort row, one row with
\* nulls for a cohort row without a match
RECURSIVE Classify(_, _)
Classify(df, combined) ==
    IF df = <<>> THEN <<>>
    ELSE LET matches == {c \in combined : c.kojin_id = Head(df).kojin_id}
         IN  (IF matches = {} THEN <<ClassifiedRow(Head(df), {})>>
              ELSE [i \in 1..Cardinality(matches) |->
                        ClassifiedRow(Head(df), {SeqOf(matches)[i]})])
             \o Classify(Tail(df), combined)

\* patients_df.with_columns(pl.lit(3).alias("treatment_group"))
AllUndetermined(df) == [i \in 1..Len(df) |-> WithColumn(df[i], "treatment_group", 3)]

RECURSIVE LinesRead(_)
LinesRead(log) == IF log = <<>> THEN 0 ELSE Head(log).lines + LinesRead(Tail(log))

TreatInit ==
    /\ tpc = "start"
    /\ dirs_exist \in BOOLEAN
    /\ patients_df \in CohortInputs
    /\ tread = 0
    /\ treatment_results = <<>>
    /\ pair_log = <<>>
    /\ classified = <<>>
    /\ classify_log = <<>>
    /\ ExtractIdle
    /\ WashIdle
    /\ SaveIdle
    /\ ComorbIdle
    /\ MainIdle
    /\ ExamIdle
    /\ DataIdle

\* a directory is missing: every patient is returned as group 3
DirsMissing ==
    /\ tpc = "start"
    /\ ~dirs_exist
    /\ classified' = AllUndetermined(patients_df)
    /\ classify_log' = Append(classify_log, "error: drug directory not found")
    /\ tpc' = "done"
    /\ UNCHANGED <<dirs_exist, tread, treatment_results, pair_log, notTreat>>

DirsFound ==
    /\ tpc = "start"
    /\ dirs_exist
    /\ tpc' = "loop"
    /\ UNCHANGED <<dirs_exist, tread, treatment_results, pair_log, classified,
                   classify_log, notTreat>>

\* the warning an iteration logs: for a date archive that does not exist
\* once the drug archive has rows of the cohort, or none
WarningOf(lines, santei_exists, df) ==
    IF DrugOfCohort(DrugRaw(lines), PatientIds(df)) # <<>> /\ ~santei_exists
    THEN "santei file not found"
    ELSE "none"

\* the rows of df_drug that have no row with their (receipt_id, line_no) in
\* the date archive
UndatedRows(lines, df) ==
    LET df_drug   == DrugOfCohort(DrugRaw(lines), PatientIds(df))
        df_santei == SanteiOfCohort(SanteiRaw(lines), PatientIds(df))
    IN  {r \in {df_drug[i] : i \in 1..Len(df_drug)} :
            \A i \in 1..Len(df_santei) :
                df_santei[i].receipt_id # r.receipt_id \/ df_santei[i].line_no # r.line_no}

\* the rows of df_drug whose drug_code is one of Config.DRUG_CODES
ConfiguredDrugRows(lines, df) ==
    SelectSeq(DrugOfCohort(DrugRaw(lines), PatientIds(df)),
              LAMBDA r : r.drug_code \in reduction_codes \cup abstinence_codes)

\* one iteration of the loop over drug_files_to_process
ProcessDrugFile ==
    /\ tpc = "loop"
    /\ tread < NDrugFiles
    /\ \E len \in 0..(MaxLines - LinesRead(pair_log)) :
         \E lines \in DrugArchives(tread + 1, len), santei_exists \in BOOLEAN :
            LET df_merged == MergedOf(lines, santei_exists, patients_df)
                grouped   == GroupedOf(df_merged, patients_df)
            IN  /\ treatment_results' =
                        IF grouped # {} THEN Append(treatment_results, grouped)
                        ELSE treatment_results
                /\ pair_log' = Append(pair_log,
                        [lines |-> len, merged |-> df_merged, grouped |-> grouped,
                         matched |-> ConfiguredDrugRows(lines, patients_df) # <<>>,
                         undated |-> IF santei_exists THEN UndatedRows(lines, patients_df)
                                     ELSE {},
                         warning |-> WarningOf(lines, santei_exists, patients_df)])
    /\ tread' = tread + 1
    /\ UNCHANGED <<tpc, dirs_exist, classified, classify_log, notTreat>>

\* an iteration whose body raises (the archive cannot be read): the except
\* clause logs a warning and goes on with the next file
DrugFileRaises ==
    /\ tpc = "loop"
    /\ tread < NDrugFiles
    /\ pair_log' = Append(pair_log,
            [lines |-> 0, merged |-> {}, grouped |-> {}, matched |-> FALSE,
             undated |-> {}, warning |-> "error"])
    /\ tread' = tread + 1
    /\ UNCHANGED <<tpc, dirs_exist, treatment_results, classified, classify_log, notTreat>>

\* `if treatment_results:` concat, unique, left join, treatment_group
ClassifyFromResults ==
    /\ tpc = "loop"
    /\ tread = NDrugFiles
    /\ treatment_results # <<>>
    /\ \E combined \in UniqueOutcomes(treatment_results) :
          classified' = Classify(patients_df, combined)
    /\ tpc' = "done"
    /\ UNCHANGED <<dirs_exist, tread, treatment_results, pair_log, classify_log, notTreat>>

\* `else:` no archive pair gave a grouped frame
ClassifyFallback ==
    /\ tpc = "loop"
    /\ tread = NDrugFiles
    /\ treatment_results = <<>>
    /\ classified' = AllUndetermined(patients_df)
    /\ classify_log' = Append(classify_log, "warning: no drug data could be processed")
    /\ tpc' = "done"
    /\ UNCHANGED <<dirs_exist, tread, treatment_results, pair_log, notTreat>>

TreatNext ==
    \/ DirsMissing \/ DirsFound
    \/ ProcessDrugFile \/ DrugFileRaises
    \/ ClassifyFromResults \/ ClassifyFallback

SpecTreat == TreatInit /\ [][TreatNext]_vars

(***************************************************************************)
(* Properties of classify_treatment_groups.                                *)
(***************************************************************************)
\* the last day of the 52-week window of an index date, from the calendar:
\* 364 days later, 2016 being a leap year
WindowEndText(index) ==
    CASE index = DateStr(2015, 3, 31, CharSlash) -> DateStr(2016, 3, 29, CharSlash)
      [] index = DateStr(2015, 4, 1, CharSlash) -> DateStr(2016, 3, 30, CharSlash)

\* a dispensing date text is in the window of an index date text
InWindowText(index, shohou) ==
    /\ StrLe(index, shohou)
    /\ StrLe(shohou, WindowEndText(index))

\* the dated dispensing rows of all processed archive pairs that belong to
\* the patient of row p of the cohort and are in the patient's window
InWindowEvents(p) ==
    {r \in UNION {pair_log[j].merged : j \in 1..Len(pair_log)} :
        /\ r.kojin_id = p.kojin_id
        /\ InWindowText(p.index_date, r.shohou_ymd)}

\* the grouped rows of all archive pairs for the patient of row p
GroupedRows(p) ==
    {g \in UNION {treatment_results[j] : j \in 1..Len(treatment_results)} :
        g.kojin_id = p.kojin_id}

\* C4: a cohort patient with a nalmefene dispensing event dated inside the
\* post-index window is assigned treatment_group 1, whatever else is in the
\* window and whichever archives hold the events.
C4_ReductionInWindowIsGroup1 ==
    tpc = "done" =>
        \A i \in 1..Len(classified) :
            (\E r \in InWindowEvents(patients_df[i]) : r.drug_code \in reduction_codes)
                => classified[i].treatment_group = 1

\* C5: the has_reduction and has_abstinence flags used for the final
\* category are the boolean OR of the patient's per-archive-pair flags.
C5_FlagsAreOrOverArchivePairs ==
    tpc = "done" /\ treatment_results # <<>> =>
        \A i \in 1..Len(classified) :
            GroupedRows(patients_df[i]) # {} =>
                /\ classified[i].has_reduction =
                      Some(\E g \in GroupedRows(patients_df[i]) : g.has_reduction)
                /\ classified[i].has_abstinence =
                      Some(\E g \in GroupedRows(patients_df[i]) : g.has_abstinence)

C7_NoInWindowRowIsGroup3 ==
    tpc = "done" =>
        /\ Len(classified) = Len(patients_df)
        /\ \A i \in 1..Len(classified) :
              InWindowEvents(patients_df[i]) = {} => classified[i].treatment_group = 3
        /\ (~dirs_exist \/ treatment_results = <<>>) =>
              \A i \in 1..Len(classified) : classified[i].treatment_group = 3

\* C7 witness: the classification used dispensing results, gave one patient
\* a treatment, and gave group 3 to another whose only dated row is outside
\* the window
C7_Witness ==
    /\ tpc = "done"
    /\ treatment_results # <<>>
    /\ \E i \in 1..Len(classified) : classified[i].treatment_group # 3
    /\ \E i \in 1..Len(classified) :
          /\ classified[i].treatment_group = 3
          /\ InWindowEvents(patients_df[i]) = {}
          /\ \E r \in UNION {pair_log[j].merged : j \in 1..Len(pair_log)} :
                r.kojin_id = patients_df[i].kojin_id

\* an archive pair was skipped with a warning
SkippedWithWarning(j) == pair_log[j].warning # "none"

\* C20: a drug archive without its date archive, or whose processing
\* raises, is skipped with a warning, the other archive pairs are still
\* processed, and their flags reach the final classification.
C20_SkippedPairLeavesOthers ==
    /\ \A j \in 1..Len(pair_log) :
          SkippedWithWarning(j) => pair_log[j].grouped = {} /\ tpc # "raised"
    /\ (tpc = "done" /\ \E j \in 1..Len(pair_log) : SkippedWithWarning(j)) =>
          /\ Len(pair_log) = NDrugFiles
          /\ \A j \in 1..Len(pair_log), i \in 1..Len(classified) :
                \A g \in pair_log[j].grouped :
                    g.kojin_id = classified[i].kojin_id =>
                        /\ g.has_reduction => classified[i].has_reduction = Some(TRUE)
                        /\ g.has_abstinence => classified[i].has_abstinence = Some(TRUE)

\* C23: a dispensing row without a row of the same (receipt_id, line_no)
\* in the date archive of its pair is dropped by the join and sets no flag:
\* the flags of the pair are those of its dated in-window rows alone.
C23_UndatedRowsAreDropped ==
    \A j \in 1..Len(pair_log) :
        /\ \A u \in pair_log[j].undated, r \in pair_log[j].merged :
              u.receipt_id # r.receipt_id \/ u.line_no # r.line_no
        /\ \A u \in pair_log[j].undated :
              LET dated == {r \in pair_log[j].merged :
                              \E i \in 1..Len(patients_df) :
                                  /\ patients_df[i].kojin_id = r.kojin_id
                                  /\ r.kojin_id = u.kojin_id
                                  /\ InWindowText(patients_df[i].index_date, r.shohou_ymd)}
                  g == {x \in pair_log[j].grouped : x.kojin_id = u.kojin_id}
              IN  /\ dated = {} => g = {}
                  /\ \A x \in g :
                        /\ x.has_reduction => \E r \in dated : r.drug_code \in reduction_codes
                        /\ x.has_abstinence => \E r \in dated : r.drug_code \in abstinence_codes

\* C23 witness: in one archive pair a patient's nalmefene row has no date
\* row, another row of the same patient is dated inside the window, and
\* the patient's grouped row has no reduction flag
C23_Witness ==
    \E j \in 1..Len(pair_log) :
        \E u \in pair_log[j].undated, x \in pair_log[j].grouped :
            /\ u.drug_code \in reduction_codes
            /\ x.kojin_id = u.kojin_id
            /\ ~x.has_reduction

\* C25: the output of classify_treatment_groups holds exactly the cohort's
\* patients, one row per patient, and every row has treatment_group 1, 2
\* or 3, with dispensing results and on the fallback paths.
C25_OneClassifiedRowPerPatient ==
    tpc = "done" =>
        /\ {classified[i].kojin_id : i \in 1..Len(classified)} = PatientIds(patients_df)
        /\ \A i, j \in 1..Len(classified) :
              classified[i].kojin_id = classified[j].kojin_id => i = j
        /\ \A i \in 1..Len(classified) : classified[i].treatment_group \in {1, 2, 3}

\* C25 witness: two archive pairs gave a grouped row for the same patient,
\* another cohort patient has none, and the classification is done
C25_Witness ==
    /\ tpc = "done"
    /\ Len(patients_df) > 1
    /\ \E a, b \in 1..Len(treatment_results) :
          /\ a # b
          /\ \E x \in treatment_results[a], y \in treatment_results[b] :
                x.kojin_id = y.kojin_id /\ x # y
    /\ \E i \in 1..Len(classified) : classified[i].first_drug_date = Null

\* C21: when the configured drug codes match no dispensing row of any
\* cohort patient in any archive, the function logs a warning or an error
\* rather than returning every patient as group 3 without a word.
C21_ZeroMatchIsWarned ==
    (/\ tpc = "done"
     /\ dirs_exist
     /\ \A j \in 1..Len(pair_log) : ~pair_log[j].matched) =>
        \/ classify_log # <<>>
        \/ \E j \in 1..Len(pair_log) : SkippedWithWarning(j)

(***************************************************************************)
(* get_comorbidities (create_analysis_dataset.py)                          *)
(***************************************************************************)
\* all_disease_files[:3]
LatestFiles == 3

\* disease archives in receipt_diseases: one more than the function reads
NComorbFiles == LatestFiles + 1
MaxDiagRows == 2    \* diagnosis rows over all those archives

\* the text of a three-character ICD10 code: a letter and two digits
Icd3(letter, n) == <<letter>> \o Digit2(n)

\* Config.COMORBIDITY_ICD10_CODES; 'I' = 73, 'E' = 69, 'F' = 70
COMORBIDITY_ICD10_CODES ==
    [hypertension |-> {Icd3(73, n) : n \in {10, 11, 12, 13, 15}},
     diabetes |-> {Icd3(69, n) : n \in 10..14},
     dyslipidemia |-> {Icd3(69, 78)},
     mental_disorders |->
        {Icd3(70, n) : n \in {20, 21, 22, 23, 24, 25, 28, 29, 30, 31, 32, 33,
                              34, 38, 39, 40, 41, 42, 43, 44, 45, 48}}]

\* the keys of the dict, in its order
Diseases == <<"hypertension", "diabetes", "dyslipidemia", "mental_disorders">>

\* f"has_{disease}"
HasCol(disease) ==
    CASE disease = "hypertension" -> "has_hypertension"
      [] disease = "diabetes" -> "has_diabetes"
      [] disease = "dyslipidemia" -> "has_dyslipidemia"
      [] disease = "mental_disorders" -> "has_mental_disorders"

\* str.starts_with(prefix)
StartsWith(s, prefix) ==
    /\ Len(s) >= Len(prefix)
    /\ SubSeq(s, 1, Len(prefix)) = prefix

\* an ICD10 master: I10 and E119 of kind 1, E11 of kind 2, F102 and F32 of
\* kind 1, and no code of E78
ICD10Master ==
    {[icd10_code |-> Icd3(73, 10), icd10_kbn_code |-> "1", diseases_code |-> "8833421"],
     [icd10_code |-> Icd3(69, 11) \o <<DigitChar(9)>>, icd10_kbn_code |-> "1",
      diseases_code |-> "2500015"],
     [icd10_code |-> Icd3(69, 11), icd10_kbn_code |-> "2", diseases_code |-> "2500013"],
     [icd10_code |-> Icd3(70, 10) \o <<DigitChar(2)>>, icd10_kbn_code |-> "1",
      diseases_code |-> "3039009"],
     [icd10_code |-> Icd3(70, 32), icd10_kbn_code |-> "1", diseases_code |-> "2961003"]}

\* icd10_master.filter(icd10_code.str.starts_with(prefix) & (icd10_kbn_code
\* == kind)).select("diseases_code"): the family lookup
CodesStartingWith(master, prefix, kind) ==
    {m.diseases_code :
        m \in {x \in master :
                 /\ StartsWith(x.icd10_code, prefix)
                 /\ x.icd10_kbn_code = kind}}

\* the dict comorbidity_codes: per disease the diseases_code values of the
\* master rows of kind "1" whose icd10_code starts with one of its prefixes
ComorbidityCodes(master) ==
    [d \in {Diseases[i] : i \in 1..Len(Diseases)} |->
        UNION {CodesStartingWith(master, prefix, "1") :
                  prefix \in COMORBIDITY_ICD10_CODES[d]}]

\* diagnosis codes met in the archives: one resolved for hypertension, one
\* resolved for diabetes, one the master lists under kind 2 only
DiagCodeInputs == {"8833421", "2500015", "2500013"}

\* the rows of the archives, by the two columns the function reads
ComorbRows ==
    {[kojin_id |-> KojinOf(k), diseases_code |-> c] :
        k \in 1..MaxCohort, c \in DiagCodeInputs}

\* the lists of n archives that hold at most `budget` rows together; the
\* rows of an archive are read through filters only and are kept as a set
RECURSIVE ArchiveLists(_, _)
ArchiveLists(n, budget) ==
    IF n = 0 THEN {<<>>}
    ELSE UNION {{<<a>> \o rest : rest \in ArchiveLists(n - 1, budget - Cardinality(a))} :
                    a \in {x \in SUBSET ComorbRows : Cardinality(x) <= budget}}

\* the cohorts handed to get_comorbidities: not empty
ComorbCohorts ==
    UNION {PatientFrames(n, {DateStr(2015, 4, 1, CharSlash)}) : n \in 1..MaxCohort}

\* disease_files_to_process = all_disease_files[:3]
disease_files_to_process(all_disease_files) ==
    SubSeq(all_disease_files, 1,
           IF Len(all_disease_files) < LatestFiles THEN Len(all_disease_files)
           ELSE LatestFiles)

\* every has_<disease> column set to False
AllFalse(df) ==
    [i \in 1..Len(df) |->
        [c \in DOMAIN df[i] \cup {HasCol(Diseases[j]) : j \in 1..Len(Diseases)} |->
            IF c \in DOMAIN df[i] THEN df[i][c] ELSE FALSE]]

\* the frames one archive appends to comorbidity_results, from disease
\* number i on: (kojin_id, has_<disease> = True), one row per patient
RECURSIVE DiseaseResults(_, _, _)
DiseaseResults(i, df_diseases, codes) ==
    IF i > Len(Diseases) THEN <<>>
    ELSE LET codes_list == codes[Diseases[i]]
             disease_patients ==
                {[kojin_id |-> r.kojin_id, has |-> TRUE] :
                    r \in {x \in df_diseases : x.diseases_code \in codes_list}}
         IN  (IF codes_list # {} /\ disease_patients # {}
              THEN <<[col |-> HasCol(Diseases[i]), rows |-> disease_patients]>>
              ELSE <<>>)
             \o DiseaseResults(i + 1, df_diseases, codes)

\* .unique(subset=["kojin_id"]): one row per kojin_id, any one of the rows
\* that carry it
UniqueByKojin(rows) ==
    {CHOOSE r \in rows : r.kojin_id = k : k \in {x.kojin_id : x \in rows}}

\* an aggregation that keeps the latest frame of a disease only
AggregateStep_Replace(acc, res_df) == res_df.rows

\* pl.concat([aggregated_disease_dfs[col], res_df]).unique(subset=["kojin_id"])
AggregateStep(acc, res_df) == UniqueByKojin(acc \cup res_df.rows)

\* aggregated_disease_dfs[col] after the loop over the first n results
RECURSIVE AggregateCol(_, _, _)
AggregateCol(res, n, col) ==
    IF n = 0 THEN {}
    ELSE LET acc == AggregateCol(res, n - 1, col)
         IN  IF res[n].col # col THEN acc
             ELSE IF acc = {} THEN res[n].rows
             ELSE AggregateStep(acc, res[n])

\* the dict aggregated_disease_dfs
AggregatedDiseaseDfs(res) ==
    [col \in {res[i].col : i \in 1..Len(res)} |-> AggregateCol(res, Len(res), col)]

\* a fill that takes a missing value for a true one
FillNull_True(v, default) == IF v = Null THEN TRUE ELSE CHOOSE x \in v : TRUE

\* fill_null(default) of a nullable value
FillNull(v, default) == IF v = Null THEN default ELSE CHOOSE x \in v : TRUE

\* frame.drop(col).join(disease_df, on="kojin_id", how="left")
\* .with_columns(pl.col(col).fill_null(False)): one row per match of a left
\* row, one row with a null for a left row without a match
RECURSIVE JoinDisease(_, _, _)
JoinDisease(frame, disease_df, col) ==
    IF frame = <<>> THEN <<>>
    ELSE LET p == DropColumn(Head(frame), col)
             matches == {r \in disease_df : r.kojin_id = p.kojin_id}
             joined ==
                IF matches = {} THEN <<Null>>
                ELSE [i \in 1..Cardinality(matches) |-> Some(SeqOf(matches)[i].has)]
         IN  [i \in 1..Len(joined) |-> WithColumn(p, col, FillNull(joined[i], FALSE))]
             \o JoinDisease(Tail(frame), disease_df, col)

\* the loop over aggregated_disease_dfs, from disease number i on; each
\* pass replaces one column, so the order of the keys does not show in the
\* rows
RECURSIVE JoinAll(_, _, _)
JoinAll(i, frame, aggregated) ==
    IF i > Len(Diseases) THEN frame
    ELSE LET col == HasCol(Diseases[i])
         IN  JoinAll(i + 1,
                     IF col \in DOMAIN aggregated
                     THEN JoinDisease(frame, aggregated[col], col)
                     ELSE frame,
                     aggregated)

ComorbInit ==
    /\ cpc = "start"
    /\ icd10_master \in {Null, Some(ICD10Master)}
    /\ disease_archives \in UNION {ArchiveLists(n, MaxDiagRows) : n \in 0..NComorbFiles}
    /\ patients_df \in ComorbCohorts
    /\ cread = 0
    /\ comorbidity_codes = <<>>
    /\ comorbidity_results = <<>>
    /\ comorb_log = <<>>
    /\ patients_with_comorbidities = <<>>
    /\ ExtractIdle
    /\ WashIdle
    /\ SaveIdle
    /\ TreatIdle
    /\ MainIdle
    /\ ExamIdle
    /\ DataIdle

\* `if icd10_master is None:` every flag False, and the return
MasterMissing ==
    /\ cpc = "start"
    /\ icd10_master = Null
    /\ patients_with_comorbidities' = AllFalse(patients_df)
    /\ cpc' = "done"
    /\ UNCHANGED <<icd10_master, disease_archives, cread, comorbidity_codes,
                   comorbidity_results, comorb_log, notComorb>>

\* the code resolution, the directory listing and the choice of the files
ResolveComorbidityCodes ==
    /\ cpc = "start"
    /\ icd10_master # Null
    /\ comorbidity_codes' = ComorbidityCodes(CHOOSE m \in icd10_master : TRUE)
    /\ cpc' = "loop"
    /\ UNCHANGED <<icd10_master, disease_archives, cread, comorbidity_results,
                   comorb_log, patients_with_comorbidities, notComorb>>

\* one iteration of the loop over disease_files_to_process; reading the
\* file may raise, and the except clause goes on with the next file
ProcessDiseaseFile ==
    /\ cpc = "loop"
    /\ cread < Len(disease_files_to_process(disease_archives))
    /\ \E raises \in BOOLEAN :
          LET file == disease_files_to_process(disease_archives)[cread + 1]
              df_diseases == {r \in file : r.kojin_id \in PatientIds(patients_df)}
          IN  /\ comorbidity_results' =
                    IF raises \/ df_diseases = {} THEN comorbidity_results
                    ELSE comorbidity_results \o DiseaseResults(1, df_diseases, comorbidity_codes)
              /\ comorb_log' = Append(comorb_log, [raised |-> raises])
    /\ cread' = cread + 1
    /\ UNCHANGED <<cpc, icd10_master, disease_archives, comorbidity_codes,
                   patients_with_comorbidities, notComorb>>

\* `if comorbidity_results:` the flags start False, the results are
\* aggregated per disease and joined, the columns are cast to Boolean
MergeComorbidities ==
    /\ cpc = "loop"
    /\ cread = Len(disease_files_to_process(disease_archives))
    /\ comorbidity_results # <<>>
    /\ patients_with_comorbidities' =
          JoinAll(1, AllFalse(patients_df), AggregatedDiseaseDfs(comorbidity_results))
    /\ cpc' = "done"
    /\ UNCHANGED <<icd10_master, disease_archives, cread, comorbidity_codes,
                   comorbidity_results, comorb_log, notComorb>>

\* `else:` no result: the flags stay False
NoComorbidityResults ==
    /\ cpc = "loop"
    /\ cread = Len(disease_files_to_process(disease_archives))
    /\ comorbidity_results = <<>>
    /\ patients_with_comorbidities' = AllFalse(patients_df)
    /\ cpc' = "done"
    /\ UNCHANGED <<icd10_master, disease_archives, cread, comorbidity_codes,
                   comorbidity_results, comorb_log, notComorb>>

ComorbNext ==
    \/ MasterMissing
    \/ ResolveComorbidityCodes
    \/ ProcessDiseaseFile
    \/ MergeComorbidities
    \/ NoComorbidityResults

SpecComorb == ComorbInit /\ [][ComorbNext]_vars

(***************************************************************************)
(* Properties of get_comorbidities.                                        *)
(***************************************************************************)
\* the receipt disease codes resolved for a comorbidity
ResolvedCodes(disease) ==
    IF icd10_master = Null THEN {}
    ELSE ComorbidityCodes(CHOOSE m \in icd10_master : TRUE)[disease]

\* archive number j of the directory holds a row of the patient of row p
\* with a code resolved for the disease
HasEvidence(j, p, disease) ==
    \E r \in disease_archives[j] :
        /\ r.kojin_id = p.kojin_id
        /\ r.diseases_code \in ResolvedCodes(disease)

\* archive number j was read by the loop and the read did not raise
ReadArchive(j) == j <= Len(comorb_log) /\ ~comorb_log[j].raised

\* archive number j is not one whose read raised
Readable(j) == j > Len(comorb_log) \/ ~comorb_log[j].raised

DiseaseIndices == 1..Len(Diseases)

\* C11: has_<comorbidity> is true for a patient if and only if a diagnosis
\* row of that patient in any (readable) receipt_diseases archive of the
\* directory carries a code resolved for that comorbidity.
C11_FlagIffEvidenceInAnyArchive ==
    cpc = "done" =>
        \A i \in 1..Len(patients_with_comorbidities), d \in DiseaseIndices :
            patients_with_comorbidities[i][HasCol(Diseases[d])] <=>
                \E j \in 1..Len(disease_archives) :
                    Readable(j) /\ HasEvidence(j, patients_df[i], Diseases[d])

\* C12: every patient of the output carries a boolean for each of the four
\* comorbidities, and a patient without a matching row in the archives read
\* has all four false, also without a master and without any match.
C12_FlagsBooleanFalseByDefault ==
    cpc = "done" =>
        /\ Len(patients_with_comorbidities) >= Len(patients_df)
        /\ \A i \in 1..Len(patients_with_comorbidities), d \in DiseaseIndices :
              /\ HasCol(Diseases[d]) \in DOMAIN patients_with_comorbidities[i]
              /\ patients_with_comorbidities[i][HasCol(Diseases[d])] \in BOOLEAN
              /\ (\A j \in 1..Len(disease_archives) :
                     ~HasEvidence(j, patients_with_comorbidities[i], Diseases[d]))
                    => patients_with_comorbidities[i][HasCol(Diseases[d])] = FALSE

\* C12 witness: results were merged, one patient is flagged and another
\* patient, without a matching row anywhere, has all four flags false
C12_Witness ==
    /\ cpc = "done"
    /\ comorbidity_results # <<>>
    /\ \E i \in 1..Len(patients_with_comorbidities), d \in DiseaseIndices :
          patients_with_comorbidities[i][HasCol(Diseases[d])]
    /\ \E i \in 1..Len(patients_with_comorbidities) :
          \A d \in DiseaseIndices :
              /\ patients_with_comorbidities[i][HasCol(Diseases[d])] = FALSE
              /\ \A j \in 1..Len(disease_archives) :
                    ~HasEvidence(j, patients_with_comorbidities[i], Diseases[d])

MaxExams == 2       \* exam rows in exam_interview_processed.feather

\* index dates of the cohort: a first of the month, and a 31st whose month
\* offsets end in shorter months
ExamIndexDates == {DateStr(2015, 4, 1, CharSlash), DateStr(2016, 8, 31, CharSlash)}

ExamCohorts == UNION {PatientFrames(n, ExamIndexDates) : n \in 1..MaxCohort}

\* exam dates around the ends of the four windows of those index dates
ExamDates ==
    {DateStr(2013, 3, 31, CharSlash), DateStr(2013, 4, 1, CharSlash),
     DateStr(2015, 3, 31, CharSlash), DateStr(2015, 4, 1, CharSlash),
     DateStr(2015, 10, 1, CharSlash), DateStr(2015, 10, 2, CharSlash),
     DateStr(2015, 12, 31, CharSlash), DateStr(2016, 1, 1, CharSlash),
     DateStr(2016, 10, 1, CharSlash), DateStr(2016, 10, 2, CharSlash),
     DateStr(2017, 1, 1, CharSlash), DateStr(2017, 2, 28, CharSlash),
     DateStr(2017, 3, 1, CharSlash), DateStr(2017, 10, 1, CharSlash),
     DateStr(2017, 10, 2, CharSlash)}

\* the rows the exam file may hold: patient, exam date and a measurement;
\* two rows may carry the same patient and the date 2015/03/31
ExamRows ==
    {[kojin_id |-> KojinOf(k), exam_ymd |-> d, bmi |-> 21] :
        k \in 1..MaxCohort, d \in ExamDates}
    \cup {[kojin_id |-> KojinOf(k), exam_ymd |-> DateStr(2015, 3, 31, CharSlash), bmi |-> 22] :
            k \in 1..MaxCohort}

\* the subsets of S of at most n elements
RECURSIVE SubsetsUpTo(_, _)
SubsetsUpTo(S, n) ==
    IF n = 0 THEN {{}}
    ELSE LET smaller == SubsetsUpTo(S, n - 1)
         IN  smaller \cup {x \cup {e} : x \in smaller, e \in S}

\* the exam file: absent, or a frame of at most MaxExams rows
ExamFiles == {Null} \cup {Some(f) : f \in SubsetsUpTo(ExamRows, MaxExams)}

\* exam_df.join(patients_df.select(["kojin_id", "index_date"]), on="kojin_id",
\* how="inner") and both dates parsed
ExamWithIndex(exam_df, df) ==
    {[kojin_id |-> r.kojin_id, bmi |-> r.bmi,
      exam_ymd |-> DateDays(StrToDate(r.exam_ymd)),
      index_date |-> StrToDate(df[i].index_date)] :
        <<r, i>> \in {x \in exam_df \X (1..Len(df)) : x[1].kojin_id = df[x[2]].kojin_id}}

\* a when/then chain whose after_index window runs to the day before the
\* year1 window
TimePoint_LongAfter(exam_ymd, index_date) ==
    LET index == DateDays(index_date)
    IN  IF exam_ymd < index /\ exam_ymd >= DateDays(OffsetMonths(index_date, -24))
        THEN Some("before_index")
        ELSE IF exam_ymd >= index /\ exam_ymd < DateDays(OffsetMonths(index_date, 9))
        THEN Some("after_index")
        ELSE IF /\ exam_ymd >= DateDays(OffsetMonths(index_date, 9))
                /\ exam_ymd <= DateDays(OffsetMonths(index_date, 18))
        THEN Some("year1")
        ELSE IF /\ exam_ymd >= DateDays(OffsetMonths(index_date, 21))
                /\ exam_ymd <= DateDays(OffsetMonths(index_date, 30))
        THEN Some("year2")
        ELSE Null

\* the when/then/otherwise chain of time_point: the first condition that
\* holds, or null
TimePoint(exam_ymd, index_date) ==
    LET index == DateDays(index_date)
    IN  IF exam_ymd < index /\ exam_ymd >= DateDays(OffsetMonths(index_date, -24))
        THEN Some("before_index")
        ELSE IF exam_ymd >= index /\ exam_ymd <= DateDays(OffsetMonths(index_date, 6))
        THEN Some("after_index")
        ELSE IF /\ exam_ymd >= DateDays(OffsetMonths(index_date, 9))
                /\ exam_ymd <= DateDays(OffsetMonths(index_date, 18))
        THEN Some("year1")
        ELSE IF /\ exam_ymd >= DateDays(OffsetMonths(index_date, 21))
                /\ exam_ymd <= DateDays(OffsetMonths(index_date, 30))
        THEN Some("year2")
        ELSE Null

\* with_columns(time_point).filter(time_point.is_not_null()) and the
\* days_diff column
ExamTimeSeries(exam_with_index) ==
    {LET tp == CHOOSE t \in TimePoint(r.exam_ymd, r.index_date) : TRUE
     IN  [kojin_id |-> r.kojin_id, bmi |-> r.bmi, exam_ymd |-> r.exam_ymd,
          index_date |-> DateDays(r.index_date), time_point |-> tp,
          days_diff |-> IF tp = "before_index"
                        THEN DateDays(r.index_date) - r.exam_ymd
                        ELSE r.exam_ymd - DateDays(r.index_date)] :
        r \in {x \in exam_with_index : TimePoint(x.exam_ymd, x.index_date) # Null}}

\* a selection that takes the row farthest from the index date
ClosestOutcomes_Farthest(series) ==
    LET keys == {<<r.kojin_id, r.time_point>> : r \in series}
        last(k) == {r \in series :
                        /\ <<r.kojin_id, r.time_point>> = k
                        /\ \A q \in series :
                              <<q.kojin_id, q.time_point>> = k => q.days_diff <= r.days_diff}
    IN  {{f[k] : k \in keys} : f \in {g \in [keys -> series] : \A k \in keys : g[k] \in last(k)}}

\* .sort(["kojin_id", "time_point", "days_diff"]).group_by(["kojin_id",
\* "time_point"]).first(): per group a row of least days_diff; the sort is
\* not stable, so any of the rows that tie
ClosestOutcomes(series) ==
    LET keys == {<<r.kojin_id, r.time_point>> : r \in series}
        first(k) == {r \in series :
                        /\ <<r.kojin_id, r.time_point>> = k
                        /\ \A q \in series :
                              <<q.kojin_id, q.time_point>> = k => r.days_diff <= q.days_diff}
    IN  {{f[k] : k \in keys} : f \in {g \in [keys -> series] : \A k \in keys : g[k] \in first(k)}}

\* the frames get_exam_data_time_series(base_dir, patients_df, params) may
\* return for an exam file
get_exam_data_time_series(file, df) ==
    IF file = Null THEN {{}}
    ELSE LET exam_df == {r \in (CHOOSE f \in file : TRUE) : r.kojin_id \in PatientIds(df)}
         IN  IF exam_df = {} THEN {{}}
             ELSE ClosestOutcomes(ExamTimeSeries(ExamWithIndex(exam_df, df)))

ExamInit ==
    /\ xpc = "start"
    /\ patients_df \in ExamCohorts
    /\ exam_file \in ExamFiles
    /\ exam_closest = {}
    /\ ExtractIdle
    /\ WashIdle
    /\ SaveIdle
    /\ TreatIdle
    /\ ComorbIdle
    /\ MainIdle
    /\ DataIdle

\* `if not os.path.exists(exam_file): ... return pl.DataFrame()`
ExamFileMissing ==
    /\ xpc = "start"
    /\ exam_file = Null
    /\ exam_closest' = {}
    /\ xpc' = "done"
    /\ UNCHANGED <<exam_file, notExam>>

\* the file is read and the closest exam of each window is selected
SelectClosestExams ==
    /\ xpc = "start"
    /\ exam_file # Null
    /\ exam_closest' \in get_exam_data_time_series(exam_file, patients_df)
    /\ xpc' = "done"
    /\ UNCHANGED <<exam_file, notExam>>

ExamNext == ExamFileMissing \/ SelectClosestExams

SpecExam == ExamInit /\ [][ExamNext]_vars

(***************************************************************************)
(* Properties of get_exam_data_time_series.                                *)
(***************************************************************************)
\* the four windows of an index date, from the calendar: first and last day
ExamWindowsText(index) ==
    IF index = DateStr(2015, 4, 1, CharSlash)
    THEN [before_index |-> <<DateStr(2013, 4, 1, CharSlash), DateStr(2015, 3, 31, CharSlash)>>,
          after_index |-> <<DateStr(2015, 4, 1, CharSlash), DateStr(2015, 10, 1, CharSlash)>>,
          year1 |-> <<DateStr(2016, 1, 1, CharSlash), DateStr(2016, 10, 1, CharSlash)>>,
          year2 |-> <<DateStr(2017, 1, 1, CharSlash), DateStr(2017, 10, 1, CharSlash)>>]
    ELSE [before_index |-> <<DateStr(2014, 8, 31, CharSlash), DateStr(2016, 8, 30, CharSlash)>>,
          after_index |-> <<DateStr(2016, 8, 31, CharSlash), DateStr(2017, 2, 28, CharSlash)>>,
          year1 |-> <<DateStr(2017, 5, 31, CharSlash), DateStr(2018, 2, 28, CharSlash)>>,
          year2 |-> <<DateStr(2018, 5, 31, CharSlash), DateStr(2019, 2, 28, CharSlash)>>]

TimePoints == {"before_index", "after_index", "year1", "year2"}

\* the exams of the file that belong to row p of the cohort and fall in
\* window tp of the patient's index date
ExamsInWindow(p, tp) ==
    {r \in UNION {f : f \in exam_file} :
        /\ r.kojin_id = p.kojin_id
        /\ StrLe(ExamWindowsText(p.index_date)[tp][1], r.exam_ymd)
        /\ StrLe(r.exam_ymd, ExamWindowsText(p.index_date)[tp][2])}

\* C29: each exam gets at most one time point, exams outside the four
\* windows are dropped, and the result holds at most one row per patient
\* and time point: an exam of that window whose date is closest to the
\* index date.
C29_ClosestExamPerTimePoint ==
    xpc = "done" =>
        /\ \A i \in 1..Len(patients_df), tp \in TimePoints, tq \in TimePoints :
              tp # tq => ExamsInWindow(patients_df[i], tp) \cap ExamsInWindow(patients_df[i], tq) = {}
        /\ \A r \in exam_closest, q \in exam_closest :
              r.kojin_id = q.kojin_id /\ r.time_point = q.time_point => r = q
        /\ \A r \in exam_closest :
              \E i \in 1..Len(patients_df) :
                \E e \in ExamsInWindow(patients_df[i], r.time_point) :
                  /\ r.kojin_id = patients_df[i].kojin_id
                  /\ r.exam_ymd = DateDays(StrToDate(e.exam_ymd))
                  /\ r.bmi = e.bmi
                  /\ \A o \in ExamsInWindow(patients_df[i], r.time_point) :
                        IF r.time_point = "before_index"
                        THEN StrLe(o.exam_ymd, e.exam_ymd)
                        ELSE StrLe(e.exam_ymd, o.exam_ymd)
        /\ \A i \in 1..Len(patients_df), tp \in TimePoints :
              ExamsInWindow(patients_df[i], tp) # {} =>
                  \E r \in exam_closest :
                      r.kojin_id = patients_df[i].kojin_id /\ r.time_point = tp

\* C29 witness: a patient has two exams of different dates in one window
\* and one row was returned for that patient and time point
C29_Witness ==
    /\ xpc = "done"
    /\ \E i \in 1..Len(patients_df), tp \in TimePoints :
          /\ Cardinality({r.exam_ymd : r \in ExamsInWindow(patients_df[i], tp)}) = 2
          /\ \E r \in exam_closest : r.kojin_id = patients_df[i].kojin_id /\ r.time_point = tp
    /\ Cardinality(exam_closest) = 1

(***************************************************************************)
(* load_patient_cohorts, get_tekiyo_data, calculate_age_at_index,          *)
(* create_analysis_datasets and main (create_analysis_dataset.py)          *)
(***************************************************************************)
MaxTekiyo == 2      \* rows of one patient in tekiyo.feather

\* the names and files of load_patient_cohorts, in the order of the dict
CohortNames == <<"primary", "sensitivity1", "sensitivity2", "all">>
CohortFile(name) ==
    CASE name = "primary" -> PrimaryFile
      [] name = "sensitivity1" -> Sens1File
      [] name = "sensitivity2" -> Sens2File
      [] name = "all" -> AllFile

\* f"{cohort_name}_cohort_baseline.feather"
BaselineFile(cohort_name) == cohort_name \o "_cohort_baseline.feather"

\* f"{cohort_name}_cohort_timeseries_exam.feather"
TimeseriesFile(cohort_name) == cohort_name \o "_cohort_timeseries_exam.feather"

\* load_patient_cohorts(output_dir): the items of the cohort files that
\* exist, from name number i on
RECURSIVE load_patient_cohorts(_, _)
load_patient_cohorts(dir, i) ==
    IF i > Len(CohortNames) THEN <<>>
    ELSE (IF CohortFile(CohortNames[i]) \in DOMAIN dir
          THEN <<[name |-> CohortNames[i], frame |-> dir[CohortFile(CohortNames[i])]]>>
          ELSE <<>>)
         \o load_patient_cohorts(dir, i + 1)

\* index dates that put a patient in the 'all' file only, in the 26- and
\* 52-week cohorts, and in every cohort
DatasetIndexDates ==
    {DateStr(2014, 4, 1, CharSlash), DateStr(2015, 3, 31, CharSlash),
     DateStr(2017, 3, 28, CharSlash)}

\* the output directory after save_results, for the frames of the first step
OutputDirs ==
    {[n \in {PrimaryFile, Sens1File, Sens2File, AllFile} |->
        CASE n = PrimaryFile -> PrimaryCohort(df)
          [] n = Sens1File -> SensitivityCohort1(df, PrimaryCohort(df))
          [] n = Sens2File -> SensitivityCohort2(df, PrimaryCohort(df))
          [] n = AllFile -> df] :
        df \in UNION {PatientFrames(n, DatasetIndexDates) : n \in 1..MaxCohort}}

\* the rows of tekiyo.feather: per patient from none to MaxTekiyo rows, by
\* two of the columns the function selects
RECURSIVE TekiyoRows(_)
TekiyoRows(k) ==
    IF k = 0 THEN {<<>>}
    ELSE {t \o [i \in 1..n |->
                  [kojin_id |-> KojinOf(k), birth_ym |-> Digit4(1970 + i) \o <<CharSlash>> \o Digit2(k),
                   sex_code |-> i]] :
            t \in TekiyoRows(k - 1), n \in 0..MaxTekiyo}

TekiyoFiles == {Null} \cup {Some(t) : t \in TekiyoRows(MaxCohort)}

\* get_tekiyo_data(base_dir, patient_ids): an empty frame without the
\* file, else its rows of the cohort
get_tekiyo_data(file, patient_ids) ==
    IF file = Null THEN <<>>
    ELSE SelectSeq(CHOOSE t \in file : TRUE, LAMBDA r : r.kojin_id \in patient_ids)

\* pl.col("index_date").str.to_date().dt.year() -
\* pl.col("birth_ym").str.slice(0, 4).cast(pl.Int32), null without birth_ym
AgeAtIndex(index_date, birth_ym) ==
    IF birth_ym = Null THEN Null
    ELSE Some(StrToDate(index_date).y - CastInt64(SubSeq(CHOOSE b \in birth_ym : TRUE, 1, 4)))

\* a row of patients_df.join(tekiyo_df, on="kojin_id", how="left") with
\* age_at_index: the cohort row p with the columns of its match m (a set
\* with the matching row, or empty)
DemoRow(p, m) ==
    LET birth_ym == {t.birth_ym : t \in m}
    IN  WithColumn(WithColumn(WithColumn(p,
            "birth_ym", birth_ym), "sex_code", {t.sex_code : t \in m}),
            "age_at_index", AgeAtIndex(p.index_date, birth_ym))

\* calculate_age_at_index(tekiyo_df, patients_df): one row per match of a
\* cohort row, one row with nulls for a cohort row without a match
RECURSIVE calculate_age_at_index(_, _)
calculate_age_at_index(tekiyo_df, df) ==
    IF df = <<>> THEN <<>>
    ELSE LET matches == SelectSeq(tekiyo_df, LAMBDA t : t.kojin_id = Head(df).kojin_id)
         IN  (IF matches = <<>> THEN <<DemoRow(Head(df), {})>>
              ELSE [i \in 1..Len(matches) |-> DemoRow(Head(df), {matches[i]})])
             \o calculate_age_at_index(tekiyo_df, Tail(df))

\* patients_with_demo of create_analysis_datasets
PatientsWithDemo(file, df) ==
    LET tekiyo_df == get_tekiyo_data(file, PatientIds(df))
    IN  IF tekiyo_df # <<>> THEN calculate_age_at_index(tekiyo_df, df)
        ELSE [i \in 1..Len(df) |-> WithColumn(df[i], "age_at_index", Null)]

\* what the drug archives hold for the classifier: the directories and the
\* grouped frames of the archive pairs, here for the first patient
DrugData ==
    {[dirs |-> FALSE, results |-> <<>>], [dirs |-> TRUE, results |-> <<>>],
     [dirs |-> TRUE,
      results |-> <<{[kojin_id |-> KojinOf(1), has_reduction |-> TRUE,
                      has_abstinence |-> FALSE,
                      first_drug_date |-> DaysFromCivil(2017, 4, 1)]}>>]}

\* the grouped frames restricted to the patients of a cohort
ResultsOfCohort(res, ids) ==
    SelectSeq([i \in 1..Len(res) |-> {g \in res[i] : g.kojin_id \in ids}],
              LAMBDA f : f # {})

\* the frames classify_treatment_groups(patients_with_demo, ...) may return
classify_treatment_groups(df, data) ==
    LET res == ResultsOfCohort(data.results, PatientIds(df))
    IN  IF ~data.dirs \/ res = <<>> THEN {AllUndetermined(df)}
        ELSE {Classify(df, combined) : combined \in UniqueOutcomes(res)}

\* what the master and the disease archives hold for get_comorbidities:
\* the master and comorbidity_results, here hypertension of the first patient
DiseaseData ==
    {[master |-> FALSE, results |-> <<>>], [master |-> TRUE, results |-> <<>>],
     [master |-> TRUE,
      results |-> <<[col |-> "has_hypertension",
                     rows |-> {[kojin_id |-> KojinOf(1), has |-> TRUE]}]>>]}

\* get_comorbidities(base_dir, patients_with_treatment, master_data, params)
get_comorbidities(df, data) ==
    LET res == SelectSeq([i \in 1..Len(data.results) |->
                            [col |-> data.results[i].col,
                             rows |-> {r \in data.results[i].rows : r.kojin_id \in PatientIds(df)}]],
                         LAMBDA x : x.rows # {})
    IN  IF ~data.master \/ res = <<>> THEN AllFalse(df)
        ELSE JoinAll(1, AllFalse(df), AggregatedDiseaseDfs(res))

\* the exam file as the dataset run meets it: absent, without a row, or
\* with one exam of the first patient three days after the latest index date
DatasetExamFiles ==
    {Null, Some({}),
     Some({[kojin_id |-> KojinOf(1), exam_ymd |-> DateStr(2017, 3, 31, CharSlash), bmi |-> 21]})}

\* the baseline frames of one cohort: demographics, treatment group,
\* comorbidity flags
BaselineFrames(df, tekiyo, drugs, diseases) ==
    {get_comorbidities(t, diseases) :
        t \in classify_treatment_groups(PatientsWithDemo(tekiyo, df), drugs)}

\* the directory after the loop body for one cohort: the baseline file,
\* and the exam file when the series is not empty
WriteCohort(dir, cohort_name, baseline, series) ==
    LET with_baseline == WriteIpc(dir, BaselineFile(cohort_name), baseline)
    IN  IF series # {} THEN WriteIpc(with_baseline, TimeseriesFile(cohort_name), SeqOf(series))
        ELSE with_baseline

DatasetInit ==
    /\ dpc = "start"
    /\ files \in OutputDirs \cup {[n \in {} |-> <<>>]}
    /\ tekiyo_file \in TekiyoFiles
    /\ drug_data \in DrugData
    /\ disease_data \in DiseaseData
    /\ exam_file \in DatasetExamFiles
    /\ cohorts = <<>>
    /\ cohort_idx = 0
    /\ dataset_exit = Null
    /\ spc = "idle"
    /\ xpc = "idle"
    /\ exam_closest = {}
    /\ patients_df = <<>>
    /\ ExtractIdle
    /\ WashIdle
    /\ TreatIdle
    /\ ComorbIdle
    /\ MainIdle

\* cohorts = load_patient_cohorts(...); `if not cohorts: ... return`
NoCohorts ==
    /\ dpc = "start"
    /\ load_patient_cohorts(files, 1) = <<>>
    /\ dataset_exit' = Some(0)
    /\ dpc' = "exit"
    /\ UNCHANGED <<tekiyo_file, drug_data, disease_data, cohorts, cohort_idx,
                   files, exam_file, notData>>

LoadCohorts ==
    /\ dpc = "start"
    /\ load_patient_cohorts(files, 1) # <<>>
    /\ cohorts' = load_patient_cohorts(files, 1)
    /\ dpc' = "loop"
    /\ UNCHANGED <<tekiyo_file, drug_data, disease_data, cohort_idx, dataset_exit,
                   files, exam_file, notData>>

\* `if patients_df_original.is_empty(): ... continue`
SkipEmptyCohort ==
    /\ dpc = "loop"
    /\ cohort_idx < Len(cohorts)
    /\ cohorts[cohort_idx + 1].frame = <<>>
    /\ cohort_idx' = cohort_idx + 1
    /\ UNCHANGED <<dpc, tekiyo_file, drug_data, disease_data, cohorts, dataset_exit,
                   files, exam_file, notData>>

\* the loop body for a cohort with patients: the four steps and the files
ProcessCohort ==
    /\ dpc = "loop"
    /\ cohort_idx < Len(cohorts)
    /\ cohorts[cohort_idx + 1].frame # <<>>
    /\ \E baseline \in BaselineFrames(cohorts[cohort_idx + 1].frame, tekiyo_file,
                                      drug_data, disease_data) :
         \E series \in get_exam_data_time_series(exam_file, baseline) :
            files' = WriteCohort(files, cohorts[cohort_idx + 1].name, baseline, series)
    /\ cohort_idx' = cohort_idx + 1
    /\ UNCHANGED <<dpc, tekiyo_file, drug_data, disease_data, cohorts, dataset_exit,
                   exam_file, notData>>

\* an exception leaves the loop body and main(): the process ends with a
\* traceback
CohortRaises ==
    /\ dpc = "loop"
    /\ cohort_idx < Len(cohorts)
    /\ dataset_exit' = Some(1)
    /\ dpc' = "exit"
    /\ UNCHANGED <<tekiyo_file, drug_data, disease_data, cohorts, cohort_idx,
                   files, exam_file, notData>>

\* the loop is over; main() returns and the process ends normally
DatasetReturns ==
    /\ dpc = "loop"
    /\ cohort_idx = Len(cohorts)
    /\ dataset_exit' = Some(0)
    /\ dpc' = "exit"
    /\ UNCHANGED <<tekiyo_file, drug_data, disease_data, cohorts, cohort_idx,
                   files, exam_file, notData>>

DatasetNext ==
    \/ NoCohorts \/ LoadCohorts
    \/ SkipEmptyCohort \/ ProcessCohort \/ CohortRaises
    \/ DatasetReturns

SpecDataset == DatasetInit /\ [][DatasetNext]_vars

(***************************************************************************)
(* Properties of create_analysis_datasets.                                 *)
(***************************************************************************)
\* C28: the baseline file of a cohort has exactly one row per patient of
\* the cohort: the joins with the enrollment table, the treatment results
\* and the comorbidity flags drop no patient and repeat none, also when the
\* enrollment table holds several rows of a patient.
C28_BaselineOneRowPerPatient ==
    \A i \in 1..cohort_idx :
        LET cohort == cohorts[i].frame
            baseline == files[BaselineFile(cohorts[i].name)]
        IN  cohort # <<>> =>
                /\ BaselineFile(cohorts[i].name) \in DOMAIN files
                /\ {baseline[j].kojin_id : j \in 1..Len(baseline)} = PatientIds(cohort)
                /\ \A j, k \in 1..Len(baseline) :
                      baseline[j].kojin_id = baseline[k].kojin_id => j = k

(***************************************************************************)
(* main() of extract_f10_2_patients.py, run as the first step of           *)
(* run_preprocessing_pipeline.py                                           *)
(***************************************************************************)
\* "F102"
F102 == Icd3(70, 10) \o <<DigitChar(2)>>

\* rows an ICD10 master may hold about alcohol dependence: F102 of kind 1
\* (two receipt codes), F102 of kind 2, F10 of kind 1, F1020 of kind 1
MainMasterRows ==
    {[icd10_code |-> F102, icd10_kbn_code |-> "1", diseases_code |-> "8843540"],
     [icd10_code |-> F102, icd10_kbn_code |-> "1", diseases_code |-> "3039009"],
     [icd10_code |-> F102, icd10_kbn_code |-> "2", diseases_code |-> "3039010"],
     [icd10_code |-> Icd3(70, 10), icd10_kbn_code |-> "1", diseases_code |-> "3039001"],
     [icd10_code |-> F102 \o <<DigitChar(0)>>, icd10_kbn_code |-> "1",
      diseases_code |-> "3039020"]}

\* m_icd10.feather: absent, present but not readable, or readable with rows
Icd10Files ==
    {[exists |-> FALSE, readable |-> FALSE, rows |-> {}],
     [exists |-> TRUE, readable |-> FALSE, rows |-> {}]}
    \cup {[exists |-> TRUE, readable |-> TRUE, rows |-> r] : r \in SUBSET MainMasterRows}

\* load_icd10_master of a file that can be read: its rows, or an empty
\* frame when the file does not exist
load_icd10_master(file) == IF file.exists THEN file.rows ELSE {}

\* a lookup that takes the code as a prefix
get_diseases_codes_for_icd10_Prefix(master, icd10_code, icd10_kbn_code) ==
    CodesStartingWith(master, icd10_code, icd10_kbn_code)

\* get_diseases_codes_for_icd10(icd10_master, icd10_code, icd10_kbn_code)
get_diseases_codes_for_icd10(master, icd10_code, icd10_kbn_code) ==
    {m.diseases_code :
        m \in {x \in master :
                 /\ x.icd10_code = icd10_code
                 /\ x.icd10_kbn_code = icd10_kbn_code}}

\* get_diseases_codes_for_icd10_pattern(icd10_master, icd10_pattern,
\* icd10_kbn_code): the dict from ICD10 code to its receipt codes
get_diseases_codes_for_icd10_pattern(master, icd10_pattern, icd10_kbn_code) ==
    LET filtered_df == {x \in master :
                          /\ StartsWith(x.icd10_code, icd10_pattern)
                          /\ x.icd10_kbn_code = icd10_kbn_code}
    IN  [c \in {x.icd10_code : x \in filtered_df} |->
            {x.diseases_code : x \in {y \in filtered_df : y.icd10_code = c}}]

\* a check of the code list that never stops the run
CodesMissing_Never(codes) == FALSE

\* `if not f10_2_diseases_codes:`
CodesMissing(codes) == codes = {}

\* the frames extract_f10_2_patients may return to main()
MainPatients == {<<>>} \cup PatientFrames(1, IndexDates)

\* the steps of the runner
ExtractionStep == "extract_f10_2_patients.py"
DatasetStep == "create_analysis_dataset.py"

\* scripts of main()
Scripts == <<ExtractionStep, DatasetStep>>

\* expected_files of check_output_files, both categories
ExpectedFiles ==
    {"f10_2_patients_primary_cohort.feather",
     "f10_2_patients_sensitivity_cohort1.feather",
     "f10_2_patients_sensitivity_cohort2.feather",
     "f10_2_patients_all.feather",
     "primary_cohort_baseline.feather",
     "primary_cohort_longitudinal.feather",
     "sensitivity1_cohort_baseline.feather",
     "sensitivity2_cohort_baseline.feather",
     "all_cohort_baseline.feather"}

\* check_output_files(): per expected name, os.path.exists in OUTPUT_DIR
check_output_files(dir) == [n \in ExpectedFiles |-> n \in DOMAIN dir]

\* created_files and total_files of generate_summary_report(file_status)
generate_summary_report(status) ==
    [created_files |-> Cardinality({n \in DOMAIN status : status[n]}),
     total_files |-> Cardinality(DOMAIN status)]

\* an exit status that is 0 as soon as one step succeeded
ExitCode_AnySuccess(count, scripts) == IF count > 0 THEN 0 ELSE 1

\* `if success_count == len(scripts): return 0`, `else: return 1`
ExitCode(count, scripts) == IF count = Len(scripts) THEN 0 ELSE 1

\* the raw data the dataset step of a pipeline run may meet: nothing but
\* the cohort files, or an enrollment row, a drug outcome, a comorbidity
\* outcome and an exam of the first patient
PipelineRawData ==
    {[tekiyo |-> Null, drugs |-> [dirs |-> FALSE, results |-> <<>>],
      diseases |-> [master |-> FALSE, results |-> <<>>], exam |-> Null]}
    \cup {[tekiyo |-> Some(<<[kojin_id |-> KojinOf(1),
                               birth_ym |-> Digit4(1971) \o <<CharSlash>> \o Digit2(1),
                               sex_code |-> 1]>>),
           drugs |-> d, diseases |-> c, exam |-> x] :
            d \in {y \in DrugData : y.results # <<>>},
            c \in {y \in DiseaseData : y.results # <<>>},
            x \in {y \in DatasetExamFiles : y # Null /\ y # Some({})}}

\* the exit status of the process run_script waits for, once it ended
ChildExit(i) == IF i = 1 THEN exit_status ELSE dataset_exit

\* the loop index after script i: the next script, or the loop is over
AfterScript(i) == IF i < Len(Scripts) THEN "loop" ELSE "check"

MainInit ==
    /\ mpc = "start"
    /\ icd10_file \in Icd10Files
    /\ n_disease_files \in 0..NFiles
    /\ scan_filter = Null
    /\ exit_status = Null
    /\ rpc = "loop"
    /\ step = 1
    /\ script_exists \in [1..Len(Scripts) -> BOOLEAN]
    /\ started = <<>>
    /\ success_count = 0
    /\ file_status = Null
    /\ report = Null
    /\ pipeline_exit = Null
    /\ patients_df = <<>>
    /\ SaveIdle
    /\ ExtractIdle
    /\ WashIdle
    /\ TreatIdle
    /\ ComorbIdle
    /\ ExamIdle
    /\ DataIdle

\* pl.read_ipc(m_icd10.feather) raises: the process ends with a traceback
MasterUnreadable ==
    /\ mpc = "start"
    /\ icd10_file.exists /\ ~icd10_file.readable
    /\ exit_status' = Some(1)
    /\ mpc' = "exit"
    /\ UNCHANGED <<icd10_file, n_disease_files, scan_filter, runnerVars, patients_df, saveVars, notMain>>

\* `if icd10_master.is_empty(): ... return`; main() returns and the
\* process ends normally
MasterEmpty ==
    /\ mpc = "start"
    /\ ~icd10_file.exists \/ icd10_file.readable
    /\ load_icd10_master(icd10_file) = {}
    /\ exit_status' = Some(0)
    /\ mpc' = "exit"
    /\ UNCHANGED <<icd10_file, n_disease_files, scan_filter, runnerVars, patients_df, saveVars, notMain>>

MasterLoaded ==
    /\ mpc = "start"
    /\ icd10_file.exists /\ icd10_file.readable
    /\ load_icd10_master(icd10_file) # {}
    /\ mpc' = "lookup"
    /\ UNCHANGED <<icd10_file, n_disease_files, scan_filter, exit_status, runnerVars, patients_df, saveVars, notMain>>

\* `if not f10_2_diseases_codes: ... return`
CodesEmpty ==
    /\ mpc = "lookup"
    /\ CodesMissing(get_diseases_codes_for_icd10(load_icd10_master(icd10_file), F102, "1"))
    /\ exit_status' = Some(0)
    /\ mpc' = "exit"
    /\ UNCHANGED <<icd10_file, n_disease_files, scan_filter, runnerVars, patients_df, saveVars, notMain>>

CodesFound ==
    /\ mpc = "lookup"
    /\ ~CodesMissing(get_diseases_codes_for_icd10(load_icd10_master(icd10_file), F102, "1"))
    /\ mpc' = "files"
    /\ UNCHANGED <<icd10_file, n_disease_files, scan_filter, exit_status, runnerVars, patients_df, saveVars, notMain>>

\* `if not disease_files: ... return`
NoDiseaseFiles ==
    /\ mpc = "files"
    /\ n_disease_files = 0
    /\ exit_status' = Some(0)
    /\ mpc' = "exit"
    /\ UNCHANGED <<icd10_file, n_disease_files, scan_filter, runnerVars, patients_df, saveVars, notMain>>

\* extract_f10_2_patients(disease_files, f10_2_diseases_codes, params)
\* returns a frame
ExtractPatients ==
    /\ mpc = "files"
    /\ n_disease_files > 0
    /\ scan_filter' =
          Some(get_diseases_codes_for_icd10(load_icd10_master(icd10_file), F102, "1"))
    /\ patients_df' \in MainPatients
    /\ mpc' = "extracted"
    /\ UNCHANGED <<icd10_file, n_disease_files, exit_status, runnerVars, saveVars, notMain>>

\* extract_f10_2_patients raises on an archive: the process ends with a
\* traceback
ExtractFails ==
    /\ mpc = "files"
    /\ n_disease_files > 0
    /\ scan_filter' =
          Some(get_diseases_codes_for_icd10(load_icd10_master(icd10_file), F102, "1"))
    /\ exit_status' = Some(1)
    /\ mpc' = "exit"
    /\ UNCHANGED <<icd10_file, n_disease_files, runnerVars, patients_df, saveVars, notMain>>

\* `if patients_df.is_empty(): ... return`
PatientsEmpty ==
    /\ mpc = "extracted"
    /\ patients_df = <<>>
    /\ exit_status' = Some(0)
    /\ mpc' = "exit"
    /\ UNCHANGED <<icd10_file, n_disease_files, scan_filter, runnerVars, patients_df, saveVars, notMain>>

\* save_results(patients_df, Config.OUTPUT_DIR) is entered
CallSaveResults ==
    /\ mpc = "extracted"
    /\ patients_df # <<>>
    /\ spc' = "primary"
    /\ mpc' = "save"
    /\ UNCHANGED <<icd10_file, n_disease_files, scan_filter, exit_status, runnerVars, patients_df, files, notMain>>

\* save_results has returned; main() returns and the process ends normally
MainReturns ==
    /\ mpc = "save"
    /\ spc = "saved"
    /\ exit_status' = Some(0)
    /\ mpc' = "exit"
    /\ UNCHANGED <<icd10_file, n_disease_files, scan_filter, runnerVars, patients_df, saveVars, notMain>>

\* `if not os.path.exists(script_path): ... continue`
ScriptMissing ==
    /\ rpc = "loop"
    /\ ~script_exists[step]
    /\ rpc' = AfterScript(step)
    /\ step' = IF step < Len(Scripts) THEN step + 1 ELSE step
    /\ UNCHANGED <<script_exists, started, success_count, file_status, report,
                   pipeline_exit, mpc, icd10_file, n_disease_files, scan_filter,
                   exit_status, patients_df, saveVars, notMain>>

\* run_script(extract_f10_2_patients.py): subprocess.run starts the process
StartExtraction ==
    /\ rpc = "loop"
    /\ step = 1
    /\ script_exists[step]
    /\ started' = Append(started, Scripts[step])
    /\ rpc' = "run"
    /\ UNCHANGED <<step, script_exists, success_count, file_status, report,
                   pipeline_exit, mpc, icd10_file, n_disease_files, scan_filter,
                   exit_status, patients_df, saveVars, notMain>>

\* run_script(create_analysis_dataset.py): subprocess.run starts the
\* process, which meets the output directory and the raw data
StartDataset ==
    /\ rpc = "loop"
    /\ step = 2
    /\ script_exists[step]
    /\ started' = Append(started, Scripts[step])
    /\ rpc' = "run"
    /\ dpc' = "start"
    /\ \E raw \in PipelineRawData :
          /\ tekiyo_file' = raw.tekiyo
          /\ drug_data' = raw.drugs
          /\ disease_data' = raw.diseases
          /\ exam_file' = raw.exam
    /\ dataset_exit' = Null
    /\ UNCHANGED <<step, script_exists, success_count, file_status, report,
                   pipeline_exit, mpc, icd10_file, n_disease_files, scan_filter,
                   exit_status, patients_df, saveVars, cohorts, cohort_idx,
                   xpc, exam_closest, extractVars, washVars, treatVars, comorbVars>>

\* result.returncode == 0: run_script returns True, the step counts as a
\* success and the loop goes on
StepSucceeded ==
    /\ rpc = "run"
    /\ ChildExit(step) = Some(0)
    /\ success_count' = success_count + 1
    /\ rpc' = AfterScript(step)
    /\ step' = IF step < Len(Scripts) THEN step + 1 ELSE step
    /\ UNCHANGED <<script_exists, started, file_status, report,
                   pipeline_exit, mpc, icd10_file, n_disease_files, scan_filter,
                   exit_status, patients_df, saveVars, notMain>>

\* another returncode: run_script returns False and the loop is left
StepFailed ==
    /\ rpc = "run"
    /\ ChildExit(step) # Null /\ ChildExit(step) # Some(0)
    /\ rpc' = "check"
    /\ UNCHANGED <<step, script_exists, started, success_count, file_status, report,
                   pipeline_exit, mpc, icd10_file, n_disease_files, scan_filter,
                   exit_status, patients_df, saveVars, notMain>>

\* subprocess.run raises TimeoutExpired, with the process killed where it
\* is, or another exception: run_script returns False and the loop is left
RunScriptRaises ==
    /\ rpc = "run"
    /\ ChildExit(step) = Null
    /\ rpc' = "check"
    /\ UNCHANGED <<step, script_exists, started, success_count, file_status, report,
                   pipeline_exit, mpc, icd10_file, n_disease_files, scan_filter,
                   exit_status, patients_df, saveVars, notMain>>

\* file_status = check_output_files()
CheckOutputFiles ==
    /\ rpc = "check"
    /\ file_status' = Some(check_output_files(files))
    /\ rpc' = "report"
    /\ UNCHANGED <<step, script_exists, started, success_count, report,
                   pipeline_exit, mpc, icd10_file, n_disease_files, scan_filter,
                   exit_status, patients_df, saveVars, notMain>>

\* generate_summary_report(file_status, pipeline_start_time)
GenerateSummaryReport ==
    /\ rpc = "report"
    /\ report' = {generate_summary_report(status) : status \in file_status}
    /\ rpc' = "return"
    /\ UNCHANGED <<step, script_exists, started, success_count, file_status,
                   pipeline_exit, mpc, icd10_file, n_disease_files, scan_filter,
                   exit_status, patients_df, saveVars, notMain>>

\* the exit status of the runner
RunnerReturns ==
    /\ rpc = "return"
    /\ pipeline_exit' = Some(ExitCode(success_count, Scripts))
    /\ rpc' = "done"
    /\ UNCHANGED <<step, script_exists, started, success_count, file_status, report,
                   mpc, icd10_file, n_disease_files, scan_filter,
                   exit_status, patients_df, saveVars, notMain>>

\* run_script waits for the extraction process
ExtractionRuns == rpc = "run" /\ step = 1

\* run_script waits for the dataset process
DatasetRuns == rpc = "run" /\ step = 2

MainNext ==
    \/ ScriptMissing \/ StartExtraction \/ StartDataset
    \/ (ExtractionRuns /\ MasterUnreadable)
    \/ (ExtractionRuns /\ MasterEmpty)
    \/ (ExtractionRuns /\ MasterLoaded)
    \/ (ExtractionRuns /\ CodesEmpty)
    \/ (ExtractionRuns /\ CodesFound)
    \/ (ExtractionRuns /\ NoDiseaseFiles)
    \/ (ExtractionRuns /\ ExtractPatients)
    \/ (ExtractionRuns /\ ExtractFails)
    \/ (ExtractionRuns /\ PatientsEmpty)
    \/ (ExtractionRuns /\ CallSaveResults)
    \/ (ExtractionRuns /\ MainReturns)
    \/ (ExtractionRuns /\ mpc = "save" /\ SavePrimary)
    \/ (ExtractionRuns /\ mpc = "save" /\ SaveSens1)
    \/ (ExtractionRuns /\ mpc = "save" /\ SaveSens2)
    \/ (ExtractionRuns /\ mpc = "save" /\ SaveAll)
    \/ (DatasetRuns /\ NoCohorts)
    \/ (DatasetRuns /\ LoadCohorts)
    \/ (DatasetRuns /\ SkipEmptyCohort)
    \/ (DatasetRuns /\ ProcessCohort)
    \/ (DatasetRuns /\ CohortRaises)
    \/ (DatasetRuns /\ DatasetReturns)
    \/ StepSucceeded \/ StepFailed \/ RunScriptRaises
    \/ CheckOutputFiles \/ GenerateSummaryReport \/ RunnerReturns

SpecMain == MainInit /\ [][MainNext]_vars

(***************************************************************************)
(* Properties of the extraction run.                                       *)
(***************************************************************************)
\* text s begins with the characters of text t
BeginsWith(s, t) == Len(s) >= Len(t) /\ \A i \in 1..Len(t) : s[i] = t[i]

\* C22: get_diseases_codes_for_icd10 returns exactly the receipt codes of
\* the master rows whose icd10_code equals the code and whose kind equals the
\* kind (not those of a longer code), the family lookups return exactly the
\* codes of the rows whose icd10_code starts with the prefix and whose kind
\* matches, and the exact result is a subset of the family result.
C22_ExactAndPrefixLookups ==
    LET master == load_icd10_master(icd10_file)
    IN  /\ \A code \in {Icd3(70, 10), F102}, kind \in {"1", "2"} :
              LET exact  == get_diseases_codes_for_icd10(master, code, kind)
                  family == get_diseases_codes_for_icd10_pattern(master, code, kind)
                  prefix == CodesStartingWith(master, code, kind)
              IN  /\ \A m \in master :
                        m.diseases_code \in exact <=>
                            m.icd10_code = code /\ m.icd10_kbn_code = kind
                  /\ exact \subseteq {m.diseases_code : m \in master}
                  /\ \A m \in master :
                        m.diseases_code \in prefix <=>
                            BeginsWith(m.icd10_code, code) /\ m.icd10_kbn_code = kind
                  /\ prefix \subseteq {m.diseases_code : m \in master}
                  /\ UNION {family[c] : c \in DOMAIN family} = prefix
                  /\ \A c \in DOMAIN family :
                        family[c] = {m.diseases_code :
                                        m \in {x \in master : x.icd10_code = c
                                                             /\ x.icd10_kbn_code = kind}}
                  /\ exact \subseteq prefix
        /\ \A codes \in scan_filter :
              \A m \in master :
                  m.diseases_code \in codes <=>
                      m.icd10_code = F102 /\ m.icd10_kbn_code = "1"

\* C22 witness: the master holds F102 and the longer F1020, both of kind 1,
\* and the codes main() hands to the extraction hold the receipt code of
\* F102 and not that of F1020, which the family lookup of F102 returns
C22_Witness ==
    /\ \E m \in load_icd10_master(icd10_file) :
          m.icd10_code = F102 \o <<DigitChar(0)>> /\ m.icd10_kbn_code = "1"
    /\ \E codes \in scan_filter :
          /\ "3039009" \in codes
          /\ "3039020" \notin codes
    /\ "3039020" \in CodesStartingWith(load_icd10_master(icd10_file), F102, "1")

\* the ICD10 master is missing, or is read and has no row
MasterMissingOrEmpty ==
    \/ ~icd10_file.exists
    \/ icd10_file.exists /\ icd10_file.readable /\ icd10_file.rows = {}

\* the master is read and the lookup of (F102, kind 1) gives no code
LookupEmpty ==
    /\ icd10_file.exists /\ icd10_file.readable /\ icd10_file.rows # {}
    /\ get_diseases_codes_for_icd10(icd10_file.rows, F102, "1") = {}

\* the codes are resolved and the directory holds no diagnosis archive
NoArchives ==
    /\ icd10_file.exists /\ icd10_file.readable
    /\ get_diseases_codes_for_icd10(icd10_file.rows, F102, "1") # {}
    /\ n_disease_files = 0

ConfigurationError == MasterMissingOrEmpty \/ LookupEmpty \/ NoArchives

\* C16: when the extraction meets a resolution or configuration error, the
\* process ends with a non-zero exit status and the runner does not start
\* the dataset-creation step.
C16_ConfigErrorExitsNonZero ==
    (ConfigurationError /\ exit_status # Null) =>
        /\ exit_status # Some(0)
        /\ \A i \in 1..Len(started) : started[i] # DatasetStep

\* C17: an unloadable master, an empty lookup, an empty list of archives or
\* an empty extraction result stops main() before the later stages: no
\* archive is scanned without a non-empty code filter, and no cohort file
\* is written.
C17_ErrorsStopBeforeLaterStages ==
    /\ scan_filter # Null =>
          /\ scan_filter # Some({})
          /\ ~ConfigurationError
          /\ icd10_file.readable
    /\ (\/ ConfigurationError
        \/ icd10_file.exists /\ ~icd10_file.readable
        \/ mpc \in {"extracted", "exit"} /\ patients_df = <<>>) =>
          /\ DOMAIN files = {}
          /\ spc = "idle"
    /\ (ConfigurationError \/ (icd10_file.exists /\ ~icd10_file.readable)) =>
          mpc \in {"start", "lookup", "files", "exit"}

\* C17 witness: the master was read, the lookup gave no code, and main()
\* has ended without a scan and without an output file
C17_Witness ==
    /\ mpc = "exit"
    /\ LookupEmpty
    /\ scan_filter = Null
    /\ DOMAIN files = {}

(***************************************************************************)
(* Properties of the pipeline runner.                                      *)
(***************************************************************************)
\* script number j was started by run_script
WasStarted(j) == \E i \in 1..Len(started) : started[i] = Scripts[j]

\* C26: a later step is started only after every earlier step has been
\* started and has succeeded with exit code 0; after a failure by exit
\* code, timeout or exception of an earlier step, or when its script file
\* does not exist, no later step is started.
C26_LaterStepOnlyAfterSuccess ==
    \A j \in 1..Len(Scripts) :
        WasStarted(j) =>
            \A k \in 1..(j - 1) :
                /\ script_exists[k]
                /\ WasStarted(k)
                /\ ChildExit(k) = Some(0)

\* C27: the runner returns 0 exactly when every configured script was run
\* and returned exit code 0, and 1 otherwise; whenever it returns, the
\* output-file check and the summary report have been executed, on the
\* output directory as it is then.
C27_ExitCodeAndReport ==
    pipeline_exit # Null =>
        /\ pipeline_exit \in {Some(0), Some(1)}
        /\ pipeline_exit = Some(0) <=>
              \A j \in 1..Len(Scripts) : WasStarted(j) /\ ChildExit(j) = Some(0)
        /\ file_status = Some(check_output_files(files))
        /\ report = Some(generate_summary_report(check_output_files(files)))

\* C27 witness: the extraction succeeded, the dataset step ended with a
\* failure, and the runner has returned 1 after the check and the report
C27_Witness ==
    /\ pipeline_exit = Some(1)
    /\ started = Scripts
    /\ exit_status = Some(0)
    /\ dataset_exit = Some(1)
    /\ success_count = 1
    /\ file_status # Null
    /\ report # Null

\* both steps succeeded, the four cohorts have patients, and the dataset
\* step wrote exam data for each of them
AllCohortsWithExams ==
    /\ success_count = Len(Scripts)
    /\ Len(cohorts) = Len(CohortNames)
    /\ cohort_idx = Len(cohorts)
    /\ \A i \in 1..Len(cohorts) :
          /\ cohorts[i].frame # <<>>
          /\ TimeseriesFile(cohorts[i].name) \in DOMAIN files

\* C30: when both steps succeed and every cohort has patients and exam
\* data, every file name check_output_files expects has been written, and
\* the summary reports all expected files as created.
C30_AllExpectedFilesWritten ==
    (AllCohortsWithExams /\ report # Null) =>
        /\ \A status \in file_status : \A n \in ExpectedFiles : status[n]
        /\ \A r \in report : r.created_files = r.total_files

====
